---------------------------- MODULE Spec2Model ----------------------------
(***************************************************************************)
(* goBili: a model of the media resolution and retrieval pipeline.         *)
(*                                                                         *)
(*   parser      (src/unnamed/part_000)  metadata, stream resolution       *)
(*   downloader  (src/CONTRIBUTING.md, from line 175)  retrieval engine    *)
(*   cmd         (src/cmd/logout.go, from line 101)  download command      *)
(*               (src/cmd/logout.go, to line 99)  logout command           *)
(*               (src/cmd/login.go)  login command, cookie-file import     *)
(*   auth        (src/auth/auth.go)  credential store, request builder     *)
(*                                                                         *)
(* Go strings that the code only stores and compares are TLA+ strings.     *)
(* The network is the environment: every response is drawn from a bounded  *)
(* set.  The local filesystem is a map from path to content: creating a    *)
(* file in the output directory succeeds, opening a file fails exactly     *)
(* when it does not exist.                                                 *)
(***************************************************************************)
EXTENDS Integers, Sequences, FiniteSets, TLC

VARIABLES
    \* ---- stream resolution (BilibiliParser.getVideoStreamsByCID) ----
    resolvePc,      \* "modern" | "legacy" | "done": position in the two-step probe
    modernResp,     \* what the playurl endpoint answers to the fnval=16 request
    legacyResp,     \* the answer received to the qn=80 request, or NoResp
    resolveOut      \* what the call returned: [err, streams]

resolveVars == <<resolvePc, modernResp, legacyResp, resolveOut>>

VARIABLES
    \* ---- the download command (cmd.runDownload) ----
    args,           \* the command line: [url, pages, quality, mode, format]
    metaAnswer,     \* what the metadata endpoint answers
    ffmpegOnPath,   \* whether exec.LookPath finds ffmpeg
    pc,             \* "start" | "resolve" | "fetching" | "done"
    cmdErr,         \* "running", then "none" or the error runDownload returns
    videoInfo,      \* what ParseURL returned
    items,          \* what to download, in order: [info, pageNum], and the
                    \* content id of the episode it was made from
    inLoop,         \* TRUE in downloadPlaylist, FALSE in downloadSingleVideo
    cur,            \* position in items of the sub-item being processed
    sub,            \* per position: requests, transfers, merge and outcome
    files,          \* the output directory: path -> content
    metaRequests,   \* the metadata endpoints ParseURL has sent a request to
    stdout          \* what runDownload itself has printed

dlVars == <<args, metaAnswer, ffmpegOnPath, pc, cmdErr, videoInfo, items,
            inLoop, cur, sub, files, metaRequests, stdout>>

VARIABLES
    \* ---- stream selection (GetBestQualityStream, GetStreamByQuality,
    \*      Downloader.selectStream in DownloadVideo) ----
    selStreams,     \* the stream list the three functions are called with
    selLabel,       \* the quality label they are called with
    selPc,          \* "best" | "byQuality" | "download" | "create" | "done"
    selBest,        \* what GetBestQualityStream returned
    selByQuality,   \* what GetStreamByQuality returned
    selDownload,    \* DownloadVideo's selection: [err, stream]
    selFiles        \* the output directory of that DownloadVideo

selVars == <<selStreams, selLabel, selPc, selBest, selByQuality, selDownload,
             selFiles>>

VARIABLES
    \* ---- item metadata (BilibiliParser.ParseURL on a video URL) ----
    metaView,       \* what the view endpoint answers
    metaPc,         \* "call" | "done"
    metaOut         \* what ParseURL returned: [err, info]

metaVars == <<metaView, metaPc, metaOut>>

VARIABLES
    \* ---- page selection (downloadPlaylist's episodesToDownload) ----
    pgExpr,         \* the parts of the --pages expression the user means
    pgText,         \* the expression as typed: the value of the flag
    pgEpisodes,     \* videoInfo.Episodes
    pgPc,           \* "call" | "done"
    pgOut           \* [ok, episodes]: the error, or episodesToDownload

pgVars == <<pgExpr, pgText, pgEpisodes, pgPc, pgOut>>

VARIABLES
    \* ---- the credential store (auth.AuthManager) ----
    cookies,        \* am.cookies: name -> value
    cookieFile,     \* cookies.json in the config directory
    authResult,     \* "unasked", or what IsAuthenticated returned for cookies
    savedFrom,      \* the map the last SaveCookies wrote
    roundTrip,      \* "saved": cookies.json is what SaveCookies wrote and the
                    \* store is the one that saved, untouched, or a fresh one;
                    \* "loaded": LoadCookies has then run; "none" otherwise
    requests        \* the requests CreateAuthenticatedRequest has built, in
                    \* order: the Cookie header of each and the map it was
                    \* built from

authVars == <<cookies, cookieFile, authResult, savedFrom, roundTrip, requests>>

VARIABLES
    \* ---- SetCookiesFromString on its own ----
    csSegments,     \* the segments of the cookie string the caller means
    csText,         \* the cookie string as it is passed
    csBefore,       \* am.cookies before the call
    csPc,           \* "call" | "done"
    csOut           \* [err, cookies]: what the call returned and left

csVars == <<csSegments, csText, csBefore, csPc, csOut>>

VARIABLES
    \* ---- the account commands (cmd.runLogout, cmd.runLogin) ----
    flags,          \* the command line of the command
    stdin,          \* what the user types when the command asks
    acPc,           \* the position of the command
    acErr,          \* "running", then "nil" or the error the command returns
    acOut,          \* what the command has printed of its outcome
    fileBefore,     \* cookies.json when the command was started
    memBefore,      \* am.cookies after the command's LoadCookies
    importLines,    \* the lines of the file --cookie-file names, as meant
    importFile,     \* that file: absent, or its text
    polls,          \* the calls of CheckQRCodeStatus LoginWithQRCode has made
    lastPoll,       \* what the last of them was answered
    qrErr           \* "running", then what LoginWithQRCode returned

acVars == <<flags, stdin, acPc, acErr, acOut, fileBefore, memBefore,
            importLines, importFile, polls, lastPoll, qrErr>>

VARIABLES
    \* ---- Downloader.generateFilename on its own ----
    fnTitle,        \* videoInfo.Title: its characters
    fnQuality,      \* stream.Quality
    fnFormat,       \* d.config.Format
    fnPc,           \* "call" | "done"
    fnOut           \* the bytes of the name it returned

fnVars == <<fnTitle, fnQuality, fnFormat, fnPc, fnOut>>

VARIABLES
    \* ---- ProgressReader.Read under io.Copy ----
    prReader,       \* pr.Reader: what its Read calls will return, in order
    prTotal,        \* pr.Total
    prProgress,     \* pr.Progress: the channel, its buffer and its receiver
    prReadBytes,    \* pr.ReadBytes
    prReturned,     \* what the calls of Read have returned, in order
    prReceived,     \* the events the consumer has received, in order
    prPc            \* "copy" | "done"

prVars == <<prReader, prTotal, prProgress, prReadBytes, prReturned, prReceived, prPc>>

\* the variables of the downloader's functions checked on their own
dfVars == <<fnVars, prVars>>

\* the variables of the components checked on their own
libVars == <<selVars, metaVars, pgVars, authVars, csVars, acVars, dfVars>>

allVars == <<resolvePc, modernResp, legacyResp, resolveOut, args, metaAnswer,
             ffmpegOnPath, pc, cmdErr, videoInfo, items, inLoop, cur, sub, files,
             metaRequests, stdout, libVars>>

-----------------------------------------------------------------------------
(* Bounds of the model *)

\* longest dash.video list of a playurl answer
MaxVideo == 3
\* longest durl list of a legacy playurl answer
MaxDurl == 2

-----------------------------------------------------------------------------
(* Sequences *)

SeqsUpTo(S, n) == UNION {[1..k -> S] : k \in 0..n}

-----------------------------------------------------------------------------
(* The platform's answers *)

\* quality ids the platform answers with (6 = 240p, 16 = 360p, 32 = 480p,
\* 64 = 720p, 80 = 1080p, 112 = 1080p high bitrate)
ApiQualityIds == {6, 16, 32, 64, 80, 112}

\* outer status codes: 0 is success, -404 stands for every rejection
ApiCodes == {0, -404}

NoResp == [kind |-> "none"]

\* the request failed in transport, or its body was no JSON of the shape
TransportFailure == [kind |-> "failed"]

VideoSources ==
    { [baseUrl |-> "v1", codecs |-> "avc1", bandwidth |-> 2000,
       width |-> 1920, height |-> 1080],
      [baseUrl |-> "v2", codecs |-> "hev1", bandwidth |-> 1000,
       width |-> 1280, height |-> 720] }

DashVideos ==
    { [id |-> q, baseUrl |-> s.baseUrl, codecs |-> s.codecs,
       bandwidth |-> s.bandwidth, width |-> s.width, height |-> s.height]
        : q \in ApiQualityIds, s \in VideoSources }

Audio1 == [id |-> 30280, baseUrl |-> "a1", codecs |-> "mp4a"]

Audio2 == [id |-> 30216, baseUrl |-> "a2", codecs |-> "flac"]

\* the dash.audio lists of the answers: none, one, two in either order
DashAudioLists == {<<>>, <<Audio1>>, <<Audio1, Audio2>>, <<Audio2, Audio1>>}

ModernResponses ==
    {TransportFailure} \cup
    { [kind |-> "json", code |-> c, video |-> v, audio |-> a]
        : c \in ApiCodes, v \in SeqsUpTo(DashVideos, MaxVideo),
          a \in DashAudioLists }

Durls ==
    { [url |-> "f1", size |-> 100, length |-> 10],
      [url |-> "f2", size |-> 200, length |-> 20] }

LegacyResponses ==
    {TransportFailure} \cup
    { [kind |-> "json", code |-> c, durl |-> d, quality |-> q]
        : c \in ApiCodes, d \in SeqsUpTo(Durls, MaxDurl), q \in ApiQualityIds }

-----------------------------------------------------------------------------
(* parser: stream resolution *)

\* getVideoStreamsByCID's qualityMap: the tiers a dash rendition is kept for
qualityMap == [q \in {80, 64, 32, 16} |-> q]

\* fmt.Sprintf("%dx%d", video.Width, video.Height)
SprintfResolution(w, h) ==
    CASE w = 1920 /\ h = 1080 -> "1920x1080"
      [] w = 1280 /\ h = 720  -> "1280x720"
      [] OTHER                -> "0x0"

\* (mutation) pairs the streams with the last audio rendition
DashAudioURLLast(audio) ==
    IF Len(audio) > 0 THEN audio[Len(audio)].baseUrl ELSE ""

\* the audio URL every dash stream of one answer is paired with
DashAudioURL(audio) == IF Len(audio) > 0 THEN audio[1].baseUrl ELSE ""

\* the audio codec every dash stream of one answer is paired with
DashAudioCodecs(audio) == IF Len(audio) > 0 THEN audio[1].codecs ELSE ""

\* the StreamInfo built for one dash video rendition
DashStream(video, audio) ==
    [Quality     |-> qualityMap[video.id],
     Format      |-> "mp4",
     VideoURL    |-> video.baseUrl,
     AudioURL    |-> DashAudioURL(audio),
     VideoCodecs |-> video.codecs,
     AudioCodecs |-> DashAudioCodecs(audio),
     Bandwidth   |-> video.bandwidth,
     Resolution  |-> SprintfResolution(video.width, video.height)]

\* (mutation) keeps only the first rendition of each quality id
DashKeptFirstOfTier(video) ==
    LET kept == SelectSeq(video, LAMBDA v : v.id \in DOMAIN qualityMap)
        F[i \in 0..Len(kept)] ==
            IF i = 0 THEN <<>>
            ELSE IF \E j \in 1..(i - 1) : kept[j].id = kept[i].id
                 THEN F[i - 1]
                 ELSE Append(F[i - 1], kept[i])
    IN  F[Len(kept)]

\* the loop over dash.video: a rendition outside qualityMap is skipped
DashKept(video) == SelectSeq(video, LAMBDA v : v.id \in DOMAIN qualityMap)

DashStreams(video, audio) ==
    LET kept == DashKept(video)
    IN  [i \in 1..Len(kept) |-> DashStream(kept[i], audio)]

\* the loop over durl of getLegacyVideoStreams
LegacyStreams(durl, quality) ==
    [i \in 1..Len(durl) |->
        [Quality     |-> quality,
         Format      |-> "flv",
         VideoURL    |-> durl[i].url,
         AudioURL    |-> "",
         VideoCodecs |-> "avc1",
         AudioCodecs |-> "mp4a",
         Bandwidth   |-> 0,
         Resolution  |-> "unknown"]]

\* (mutation) takes only a positive status code for a rejection
ApiRejectedIfPositive(code) == code > 0

\* apiResp.Code != 0, the test both steps make on the outer status code
ApiRejected(code) == code # 0

\* (mutation) falls back to the legacy endpoint for a single stream too
NoDashStreamsOrOne(streams) == Len(streams) <= 1

\* len(streams) == 0, the test that sends the call to the legacy endpoint
NoDashStreams(streams) == Len(streams) = 0

Returned(streams) == [err |-> "none", streams |-> streams]

Failed(e) == [err |-> e, streams |-> <<>>]

NotReturned == [err |-> "pending", streams |-> <<>>]

\* getLegacyVideoStreams, given the endpoint's answer
getLegacyVideoStreamsOn(l) ==
    IF l.kind = "failed" THEN Failed("transport")
    ELSE IF ApiRejected(l.code) THEN Failed("api")
    ELSE Returned(LegacyStreams(l.durl, l.quality))

\* getVideoStreamsByCID has to go on to getLegacyVideoStreams
NeedLegacy == [err |-> "legacy", streams |-> <<>>]

\* getVideoStreamsByCID, given the endpoint's answer, up to its return or its
\* call of getLegacyVideoStreams
getVideoStreamsByCIDOn(m) ==
    IF m.kind = "failed" THEN Failed("transport")
    ELSE IF ApiRejected(m.code) THEN Failed("api")
    ELSE IF NoDashStreams(DashStreams(m.video, m.audio)) THEN NeedLegacy
    ELSE Returned(DashStreams(m.video, m.audio))

\* the whole call, given the answers of the two endpoints
resolveVariants(m, l) ==
    IF getVideoStreamsByCIDOn(m) = NeedLegacy
    THEN getLegacyVideoStreamsOn(l)
    ELSE getVideoStreamsByCIDOn(m)

\* getVideoStreamsByCID: the first request
getVideoStreamsByCID(m) ==
    /\ resolvePc = "modern"
    /\ IF getVideoStreamsByCIDOn(m) = NeedLegacy
       THEN /\ resolveOut' = resolveOut
            /\ resolvePc' = "legacy"
       ELSE /\ resolveOut' = getVideoStreamsByCIDOn(m)
            /\ resolvePc' = "done"
    /\ UNCHANGED <<modernResp, legacyResp, dlVars, libVars>>

\* getLegacyVideoStreams: the second request and the call's return
getLegacyVideoStreams(l) ==
    /\ resolvePc = "legacy"
    /\ legacyResp' = l
    /\ resolveOut' = getLegacyVideoStreamsOn(l)
    /\ resolvePc' = "done"
    /\ UNCHANGED <<modernResp, dlVars, libVars>>

-----------------------------------------------------------------------------
(* Go strings the code takes apart: sequences of one-character strings *)

Digits == <<"0", "1", "2", "3", "4", "5", "6", "7", "8", "9">>

IsDigit(c) == \E d \in 1..10 : Digits[d] = c

DigitValue(c) == (CHOOSE d \in 1..10 : Digits[d] = c) - 1

\* strconv-style decimal text of a natural number (fmt's %d)
RECURSIVE Itoa(_)
Itoa(n) == IF n < 10 THEN <<Digits[n + 1]>>
           ELSE Itoa(n \div 10) \o <<Digits[(n % 10) + 1]>>

IsSpace(c) == c \in {" ", "\t", "\n", "\r"}

\* strings.TrimSpace
RECURSIVE TrimLeft(_)
TrimLeft(s) == IF s # <<>> /\ IsSpace(Head(s)) THEN TrimLeft(Tail(s)) ELSE s

RECURSIVE TrimRight(_)
TrimRight(s) ==
    IF s # <<>> /\ IsSpace(s[Len(s)])
    THEN TrimRight(SubSeq(s, 1, Len(s) - 1))
    ELSE s

TrimSpace(s) == TrimRight(TrimLeft(s))

\* strings.Contains(s, c) for a one-character c
Contains(s, c) == \E i \in 1..Len(s) : s[i] = c

\* strings.Split(s, c) for a one-character separator c
RECURSIVE Split(_, _)
Split(s, c) ==
    IF ~Contains(s, c) THEN <<s>>
    ELSE LET i == CHOOSE k \in 1..Len(s) :
                      s[k] = c /\ \A j \in 1..(k - 1) : s[j] # c
         IN  <<SubSeq(s, 1, i - 1)>> \o Split(SubSeq(s, i + 1, Len(s)), c)

\* strings.ReplaceAll(s, c, "_") for a one-character c
ReplaceAll(s, c) == [i \in 1..Len(s) |-> IF s[i] = c THEN "_" ELSE s[i]]

\* the longest prefix of s made of digits
RECURSIVE DigitPrefix(_)
DigitPrefix(s) ==
    IF s # <<>> /\ IsDigit(Head(s))
    THEN <<Head(s)>> \o DigitPrefix(Tail(s))
    ELSE <<>>

RECURSIVE DecimalValue(_)
DecimalValue(d) ==
    IF d = <<>> THEN 0
    ELSE 10 * DecimalValue(SubSeq(d, 1, Len(d) - 1)) + DigitValue(d[Len(d)])

\* parseInt: fmt.Sscanf(s, "%d", &result): leading space is skipped, a sign
\* is accepted, the digits that follow are read and what follows them is
\* left unread; no digit is an error
parseInt(s) ==
    LET t      == TrimLeft(s)
        signed == t # <<>> /\ Head(t) \in {"+", "-"}
        body   == IF signed THEN Tail(t) ELSE t
        d      == DigitPrefix(body)
        v      == DecimalValue(d)
    IN  IF d = <<>> THEN [ok |-> FALSE, val |-> 0]
        ELSE [ok |-> TRUE, val |-> IF signed /\ Head(t) = "-" THEN 0 - v ELSE v]

\* (mutation) the range loop stops before the end page
FromToExclusive(start, end) == [i \in 1..(end - start) |-> start + i - 1]

\* start, start+1, ..., end
FromTo(start, end) == [i \in 1..(end - start + 1) |-> start + i - 1]

\* what parsePageRange appends for one comma-separated part, or its error
PagePart(raw) ==
    LET part == TrimSpace(raw)
    IN  IF Contains(part, "-")
        THEN LET rangeParts == Split(part, "-")
             IN  IF Len(rangeParts) # 2 THEN [ok |-> FALSE, indices |-> <<>>]
                 ELSE LET start == parseInt(rangeParts[1])
                          end   == parseInt(rangeParts[2])
                      IN  IF ~start.ok \/ ~end.ok \/ start.val > end.val
                          THEN [ok |-> FALSE, indices |-> <<>>]
                          ELSE [ok |-> TRUE, indices |-> FromTo(start.val, end.val)]
        ELSE LET page == parseInt(part)
             IN  IF ~page.ok THEN [ok |-> FALSE, indices |-> <<>>]
                 ELSE [ok |-> TRUE, indices |-> <<page.val>>]

RECURSIVE PageParts(_)
PageParts(parts) ==
    IF parts = <<>> THEN [ok |-> TRUE, indices |-> <<>>]
    ELSE LET first == PagePart(Head(parts))
             rest  == PageParts(Tail(parts))
         IN  IF ~first.ok \/ ~rest.ok THEN [ok |-> FALSE, indices |-> <<>>]
             ELSE [ok |-> TRUE, indices |-> first.indices \o rest.indices]

\* cmd.parsePageRange (maxPages is not used by it)
parsePageRange(pages, maxPages) == PageParts(Split(pages, ","))

All == <<"a", "l", "l">>

\* downloadPlaylist's choice of episodesToDownload
RECURSIVE EpisodesAt(_, _)
EpisodesAt(episodes, indices) ==
    IF indices = <<>> THEN <<>>
    ELSE LET idx == Head(indices)
         IN  (IF idx > 0 /\ idx <= Len(episodes) THEN <<episodes[idx]>> ELSE <<>>)
                \o EpisodesAt(episodes, Tail(indices))

episodesToDownloadOf(episodes, pages) ==
    IF pages = All THEN [ok |-> TRUE, episodes |-> episodes]
    ELSE LET r == parsePageRange(pages, Len(episodes))
         IN  IF ~r.ok THEN [ok |-> FALSE, episodes |-> <<>>]
             ELSE [ok |-> TRUE, episodes |-> EpisodesAt(episodes, r.indices)]

-----------------------------------------------------------------------------
(* parser: metadata *)

\* fmt.Sprintf("%s - P%d", videoInfo.Title, page.Page)
SprintfPartTitle(title, page) == title \o <<" ", "-", " ", "P">> \o Itoa(page)

\* (mutation) the part title is used even when it is empty
EpisodeOfPagePartOnly(info, page) ==
    [BVID  |-> info.BVID,
     CID   |-> page.CID,
     Title |-> page.Part,
     Index |-> page.Page]

\* parseVideoURL's conversion of one page to an episode
EpisodeOfPage(info, page) ==
    [BVID  |-> info.BVID,
     CID   |-> page.CID,
     Title |-> IF page.Part = <<>> THEN SprintfPartTitle(info.Title, page.Page)
               ELSE page.Part,
     Index |-> page.Page]

\* (mutation) a video is a playlist as soon as it has one page
parseVideoURLOnAnyPage(info) ==
    IF Len(info.Pages) > 0
    THEN [info EXCEPT !.Type = "playlist",
                      !.Episodes = [i \in 1..Len(info.Pages) |->
                                        EpisodeOfPage(info, info.Pages[i])]]
    ELSE [info EXCEPT !.Type = "video"]

\* parseVideoURL, given the VideoInfo getVideoInfo returned
parseVideoURLOn(info) ==
    IF Len(info.Pages) > 1
    THEN [info EXCEPT !.Type = "playlist",
                      !.Episodes = [i \in 1..Len(info.Pages) |->
                                        EpisodeOfPage(info, info.Pages[i])]]
    ELSE [info EXCEPT !.Type = "video"]

\* getVideoInfo's VideoInfo for the data of a view answer
VideoInfoOfView(data) ==
    [BVID |-> data.bvid, Title |-> data.title, Type |-> "",
     Episodes |-> <<>>, Pages |-> data.pages]

\* getPlaylistInfo's VideoInfo for the data of a season answer
VideoInfoOfSeason(data) ==
    [BVID |-> "", Title |-> data.title, Type |-> "playlist",
     Episodes |-> [i \in 1..Len(data.episodes) |->
                      [BVID  |-> data.episodes[i].bvid,
                       CID   |-> data.episodes[i].cid,
                       Title |-> data.episodes[i].title,
                       Index |-> data.episodes[i].index]],
     Pages |-> <<>>]

NoVideoInfo ==
    [BVID |-> "", Title |-> <<>>, Type |-> "", Episodes |-> <<>>, Pages |-> <<>>]

\* ParseURL: the URL's path picks the endpoint, its identifier must be found,
\* the endpoint's answer must be a status-0 answer
ParseURL(u, answer) ==
    IF u.path = "video"
    THEN IF ~u.hasId THEN [err |-> "no_id", info |-> NoVideoInfo]
         ELSE IF answer.kind = "failed" THEN [err |-> "transport", info |-> NoVideoInfo]
         ELSE IF answer.code # 0 THEN [err |-> "api", info |-> NoVideoInfo]
         ELSE [err |-> "none", info |-> parseVideoURLOn(VideoInfoOfView(answer.data))]
    ELSE IF u.path = "bangumi"
    THEN IF ~u.hasId THEN [err |-> "no_id", info |-> NoVideoInfo]
         ELSE IF answer.kind = "failed" THEN [err |-> "transport", info |-> NoVideoInfo]
         ELSE IF answer.code # 0 THEN [err |-> "api", info |-> NoVideoInfo]
         ELSE [err |-> "none", info |-> VideoInfoOfSeason(answer.data)]
    ELSE [err |-> "unsupported", info |-> NoVideoInfo]

\* GetVideoStreamsForPage's choice of the content id; 0 stands for its
\* "no pages found for video" error, which makes no request
CidForPage(info, pageNum) ==
    IF Len(info.Pages) > 0
    THEN IF pageNum > 0 /\ pageNum <= Len(info.Pages)
         THEN info.Pages[pageNum].CID
         ELSE info.Pages[1].CID
    ELSE 0

\* downloadPlaylist's episodeVideoInfo
EpisodeVideoInfo(info, episode) ==
    [BVID |-> episode.BVID, Title |-> episode.Title, Type |-> "video",
     Episodes |-> <<>>, Pages |-> info.Pages]

-----------------------------------------------------------------------------
(* downloader *)

\* no stream: the nil *StreamInfo
NoStream ==
    [Quality |-> 0, Format |-> "", VideoURL |-> "", AudioURL |-> "",
     VideoCodecs |-> "", AudioCodecs |-> "", Bandwidth |-> 0, Resolution |-> ""]

\* Downloader.selectStream's map of labels to tiers
qualityLabels == [l \in {"best", "1080p", "720p", "480p", "360p"} |->
                    CASE l = "best"  -> 80
                      [] l = "1080p" -> 80
                      [] l = "720p"  -> 64
                      [] l = "480p"  -> 32
                      [] l = "360p"  -> 16]

\* the scan for the best stream: the first of the highest quality
RECURSIVE BestFrom(_, _)
BestFrom(best, rest) ==
    IF rest = <<>> THEN best
    ELSE BestFrom(IF Head(rest).Quality > best.Quality THEN Head(rest) ELSE best,
                  Tail(rest))

\* (mutation) a label that is not in the map stands for the lowest tier
selectStreamDefaultLowest(streams, quality) ==
    LET targetQuality == IF quality \in DOMAIN qualityLabels
                         THEN qualityLabels[quality] ELSE 16
        exact == {i \in 1..Len(streams) : streams[i].Quality = targetQuality}
    IN  IF Len(streams) = 0 THEN NoStream
        ELSE IF exact # {}
        THEN streams[CHOOSE i \in exact : \A j \in exact : i <= j]
        ELSE BestFrom(Head(streams), Tail(streams))

\* Downloader.selectStream; NoStream is its nil
selectStream(streams, quality) ==
    LET targetQuality == IF quality \in DOMAIN qualityLabels
                         THEN qualityLabels[quality] ELSE 80
        exact == {i \in 1..Len(streams) : streams[i].Quality = targetQuality}
    IN  IF Len(streams) = 0 THEN NoStream
        ELSE IF exact # {}
        THEN streams[CHOOSE i \in exact : \A j \in exact : i <= j]
        ELSE BestFrom(Head(streams), Tail(streams))

(* parser: stream selection *)

\* (mutation) a later stream of the same quality replaces the best so far
GetBestQualityStreamLast(streams) ==
    LET F[i \in 1..Len(streams)] ==
            IF i = 1 THEN streams[1]
            ELSE IF streams[i].Quality >= F[i - 1].Quality THEN streams[i]
                 ELSE F[i - 1]
    IN  IF Len(streams) = 0 THEN NoStream ELSE F[Len(streams)]

\* BilibiliParser.GetBestQualityStream; NoStream is its nil
GetBestQualityStream(streams) ==
    IF Len(streams) = 0 THEN NoStream
    ELSE BestFrom(Head(streams), Tail(streams))

\* (mutation) "best" stands for the 720p tier
qualityMapBestIs720 ==
    [l \in {"best", "1080p", "720p", "480p", "360p"} |->
        CASE l = "best"  -> 64
          [] l = "1080p" -> 80
          [] l = "720p"  -> 64
          [] l = "480p"  -> 32
          [] l = "360p"  -> 16]

\* GetStreamByQuality's qualityMap of labels to tiers
qualityMapOfLabels ==
    [l \in {"best", "1080p", "720p", "480p", "360p"} |->
        CASE l = "best"  -> 80
          [] l = "1080p" -> 80
          [] l = "720p"  -> 64
          [] l = "480p"  -> 32
          [] l = "360p"  -> 16]

\* the loop of GetStreamByQuality: the first stream of the target quality
FirstOfQuality(streams, targetQuality) ==
    LET exact == {i \in 1..Len(streams) : streams[i].Quality = targetQuality}
    IN  IF exact = {} THEN NoStream
        ELSE streams[CHOOSE i \in exact : \A j \in exact : i <= j]

\* BilibiliParser.GetStreamByQuality
GetStreamByQuality(streams, quality) ==
    IF quality \notin DOMAIN qualityMapOfLabels
    THEN GetBestQualityStream(streams)
    ELSE IF FirstOfQuality(streams, qualityMapOfLabels[quality]) # NoStream
    THEN FirstOfQuality(streams, qualityMapOfLabels[quality])
    ELSE GetBestQualityStream(streams)

\* the characters generateFilename replaces by "_"
HostileChars == <<"/", "\\", ":", "*", "?", "\"", "<", ">", "|">>

RECURSIVE ReplaceEach(_, _)
ReplaceEach(s, cs) ==
    IF cs = <<>> THEN s ELSE ReplaceEach(ReplaceAll(s, Head(cs)), Tail(cs))

\* the longest title generateFilename keeps
TitleMax == 100

qualitySuffix(q) ==
    CASE q = 80 -> <<"_", "1", "0", "8", "0", "p">>
      [] q = 64 -> <<"_", "7", "2", "0", "p">>
      [] q = 32 -> <<"_", "4", "8", "0", "p">>
      [] q = 16 -> <<"_", "3", "6", "0", "p">>
      [] OTHER  -> <<>>

\* Downloader.generateFilename; with OutputDir it is the output path
generateFilename(title, q, format) ==
    LET clean == ReplaceEach(title, HostileChars)
        cut   == IF Len(clean) > TitleMax THEN SubSeq(clean, 1, TitleMax) ELSE clean
    IN  cut \o qualitySuffix(q) \o <<".">> \o format

\* strings.TrimSuffix(outputPath, filepath.Ext(outputPath)): the path up to
\* its last dot
TrimExt(path) ==
    IF ~Contains(path, ".") THEN path
    ELSE LET i == CHOOSE k \in 1..Len(path) :
                      path[k] = "." /\ \A j \in (k + 1)..Len(path) : path[j] # "."
         IN  SubSeq(path, 1, i - 1)

Mp4 == <<"m", "p", "4">>

videoTempPath(outputPath) == TrimExt(outputPath) \o <<"_", "v", "i", "d", "e", "o", ".">> \o Mp4

audioTempPath(outputPath) ==
    TrimExt(outputPath) \o <<"_", "a", "u", "d", "i", "o", ".", "m", "4", "a">>

\* downloadAudio's and downloadVideoOnly's output paths
audioOnlyPath(outputPath) == TrimExt(outputPath) \o <<".", "m", "4", "a">>

videoOnlyPath(outputPath) == TrimExt(outputPath) \o <<".">> \o Mp4

(* The filesystem: a function from the paths that exist to their content *)

EmptyFile == [kind |-> "empty", src |-> <<>>]

PartialOf(url) == [kind |-> "partial", src |-> <<url>>]

BodyOf(url) == [kind |-> "body", src |-> <<url>>]

\* what ffmpeg writes: the video of its first input with the audio of its second
Muxed(v, a) == [kind |-> "muxed", src |-> v.src \o a.src]

Absent == [kind |-> "absent", src |-> <<>>]

\* what is at path: a content, or Absent
FileAt(fs, path) == IF path \in DOMAIN fs THEN fs[path] ELSE Absent

\* os.Create(path) and a write of content
WriteFile(fs, path, content) ==
    [p \in DOMAIN fs \cup {path} |-> IF p = path THEN content ELSE fs[p]]

\* os.Remove(path), its error ignored
RemoveFile(fs, path) == [p \in DOMAIN fs \ {path} |-> fs[p]]

\* (mutation) the fallback cleans the temporary files up as well
copyFileAndCleanUp(fs, src, dst) ==
    IF src \notin DOMAIN fs THEN [err |-> "open", fs |-> fs]
    ELSE [err |-> "none",
          fs |-> RemoveFile(WriteFile(fs, dst, fs[src]), src)]

\* Downloader.copyFile
copyFile(fs, src, dst) ==
    IF src \notin DOMAIN fs THEN [err |-> "open", fs |-> fs]
    ELSE [err |-> "none", fs |-> WriteFile(fs, dst, fs[src])]

\* Downloader.mergeVideoAndAudio; ffmpeg is "missing" (not on the PATH),
\* "fails" (its run ends with an error) or "runs"; a run with an input file
\* that does not exist fails
mergeVideoAndAudio(fs, videoPath, audioPath, outputPath, ffmpeg) ==
    IF ffmpeg = "missing" THEN copyFile(fs, videoPath, outputPath)
    ELSE IF ffmpeg = "fails" \/ {videoPath, audioPath} \ DOMAIN fs # {}
    THEN copyFile(fs, videoPath, outputPath)
    ELSE [err |-> "none",
          fs  |-> RemoveFile(
                    RemoveFile(
                      WriteFile(fs, outputPath, Muxed(fs[videoPath], fs[audioPath])),
                      videoPath),
                    audioPath)]

\* (mutation) only the video transfer's error fails the download
joinErrorVideoOnly(videoSt, audioSt) ==
    IF videoSt = "failed" THEN "video" ELSE "none"

\* downloadVideoAndAudio after wg.Wait(): the error it returns
joinError(videoSt, audioSt) ==
    IF videoSt = "failed" THEN "video"
    ELSE IF audioSt = "failed" THEN "audio"
    ELSE "none"

Terminated(st) == st \in {"ok", "failed"}

\* (mutation) the wait ends with the video transfer
waitGroupDoneOnVideo(videoSt, audioSt) == Terminated(videoSt)

\* wg.Wait() returns: both goroutines have called wg.Done()
waitGroupDone(videoSt, audioSt) == Terminated(videoSt) /\ Terminated(audioSt)

-----------------------------------------------------------------------------
(* auth: the credential store (src/auth/auth.go) *)

SESSDATA == <<"S", "E", "S", "S", "D", "A", "T", "A">>

bili_jct == <<"b", "i", "l", "i", "_", "j", "c", "t">>

\* a byte that is no valid UTF-8, held in a Go string as it is
InvalidByte == "0xFF"

\* U+FFFD, the rune encoding/json puts in the place of an invalid byte
ReplacementChar == "U+FFFD"

\* make(map[string]string)
NoCookies == [n \in {} |-> <<>>]

\* am.cookies[name], the empty string for a name that is not in the map
GetCookie(jar, name) == IF name \in DOMAIN jar THEN jar[name] ELSE <<>>

\* am.cookies[name] = value
WithCookie(jar, name, value) ==
    [n \in DOMAIN jar \cup {name} |-> IF n = name THEN value ELSE jar[n]]

\* IsAuthenticated's essentialCookies
essentialCookies == <<SESSDATA, bili_jct>>

\* (mutation) only the session cookie is looked at
IsAuthenticatedBySession(jar) == GetCookie(jar, SESSDATA) # <<>>

\* AuthManager.IsAuthenticated
IsAuthenticated(jar) ==
    \A i \in 1..Len(essentialCookies) : GetCookie(jar, essentialCookies[i]) # <<>>

(* encoding/json, for a map of strings *)

\* how json.Marshal writes one character inside a string: a quote and a
\* backslash are escaped, the characters of HTML are written as \u00XX, a byte
\* that is no valid UTF-8 is written as the escape of U+FFFD
EncodeChar(c) ==
    CASE c = "\""        -> <<"\\", "\"">>
      [] c = "\\"        -> <<"\\", "\\">>
      [] c = "<"         -> <<"\\", "u", "0", "0", "3", "c">>
      [] c = ">"         -> <<"\\", "u", "0", "0", "3", "e">>
      [] c = "&"         -> <<"\\", "u", "0", "0", "2", "6">>
      [] c = InvalidByte -> <<"\\", "u", "f", "f", "f", "d">>
      [] OTHER           -> <<c>>

RECURSIVE EncodeString(_)
EncodeString(str) ==
    IF str = <<>> THEN <<>> ELSE EncodeChar(Head(str)) \o EncodeString(Tail(str))

\* the character a \uXXXX escape stands for
UnicodeEscape(hex) ==
    CASE hex = <<"0", "0", "3", "c">> -> "<"
      [] hex = <<"0", "0", "3", "e">> -> ">"
      [] hex = <<"0", "0", "2", "6">> -> "&"
      [] OTHER                        -> ReplacementChar

\* how json.Unmarshal reads the inside of a string
RECURSIVE DecodeString(_)
DecodeString(text) ==
    IF text = <<>> THEN <<>>
    ELSE IF Head(text) # "\\" THEN <<Head(text)>> \o DecodeString(Tail(text))
    ELSE IF text[2] = "u"
    THEN <<UnicodeEscape(SubSeq(text, 3, 6))>> \o DecodeString(SubSeq(text, 7, Len(text)))
    ELSE <<text[2]>> \o DecodeString(SubSeq(text, 3, Len(text)))

\* the characters of the cookie names in the order of their bytes
ByteOrder ==
    <<"1", "2", "3", "A", "D", "E", "S", "T", "_", "a", "b", "c", "d", "i", "j", "l",
      "t", "u", "v">>

ByteRank(c) == CHOOSE k \in 1..Len(ByteOrder) : ByteOrder[k] = c

\* the order of Go strings
RECURSIVE LessString(_, _)
LessString(x, y) ==
    IF y = <<>> THEN FALSE
    ELSE IF x = <<>> THEN TRUE
    ELSE IF Head(x) = Head(y) THEN LessString(Tail(x), Tail(y))
    ELSE ByteRank(Head(x)) < ByteRank(Head(y))

\* the keys of a map in the order json.Marshal writes them: sorted
RECURSIVE SortedKeys(_)
SortedKeys(keys) ==
    IF keys = {} THEN <<>>
    ELSE LET least == CHOOSE k \in keys : \A o \in keys \ {k} : LessString(k, o)
         IN  <<least>> \o SortedKeys(keys \ {least})

\* json.MarshalIndent(am.cookies, "", "  "): the members of the object, each a
\* key and a value as they are written between their quotes
MarshalIndent(jar) ==
    LET keys == SortedKeys(DOMAIN jar)
    IN  [i \in 1..Len(keys) |->
            [key |-> EncodeString(keys[i]), value |-> EncodeString(jar[keys[i]])]]

\* json.Unmarshal(data, &am.cookies): the map is reused and keeps its entries,
\* each member is stored in it in the order of the text
RECURSIVE Unmarshal(_, _)
Unmarshal(members, jar) ==
    IF members = <<>> THEN jar
    ELSE Unmarshal(Tail(members),
                   WithCookie(jar, DecodeString(Head(members).key),
                              DecodeString(Head(members).value)))

\* cookies.json: absent, or the members of its object
NoCookieFile == [exists |-> FALSE, members |-> <<>>]

CookieFileOf(jar) == [exists |-> TRUE, members |-> MarshalIndent(jar)]

\* AuthManager.LoadCookies: without the file nothing is read
LoadCookiesOn(jar, file) ==
    IF ~file.exists THEN jar ELSE Unmarshal(file.members, jar)

\* parseCookiesFromURL's cookieNames that a redirect URL may carry here
cookieNames == <<SESSDATA, bili_jct>>

\* parseCookiesFromURL: every named parameter that is not empty is stored
RECURSIVE parseCookiesFromURL(_, _, _)
parseCookiesFromURL(jar, params, names) ==
    IF names = <<>> THEN jar
    ELSE parseCookiesFromURL(
            IF GetCookie(params, Head(names)) # <<>>
            THEN WithCookie(jar, Head(names), params[Head(names)])
            ELSE jar,
            params, Tail(names))

(* SetCookiesFromString *)

\* (mutation) the segment is cut at its last "="
SplitAtLast(str, c) ==
    IF ~Contains(str, c) THEN <<str>>
    ELSE LET i == CHOOSE k \in 1..Len(str) :
                      str[k] = c /\ \A j \in (k + 1)..Len(str) : str[j] # c
         IN  <<SubSeq(str, 1, i - 1), SubSeq(str, i + 1, Len(str))>>

\* strings.SplitN(s, c, 2) for a one-character c: cut at the first c
SplitN2(str, c) ==
    IF ~Contains(str, c) THEN <<str>>
    ELSE LET i == CHOOSE k \in 1..Len(str) :
                      str[k] = c /\ \A j \in 1..(k - 1) : str[j] # c
         IN  <<SubSeq(str, 1, i - 1), SubSeq(str, i + 1, Len(str))>>

\* the body of SetCookiesFromString's loop for one segment
SetCookieOfSegment(jar, segment) ==
    LET cookie == TrimSpace(segment)
        parts  == SplitN2(cookie, "=")
    IN  IF cookie = <<>> THEN jar
        ELSE IF Len(parts) # 2 THEN jar
        ELSE WithCookie(jar, TrimSpace(parts[1]), TrimSpace(parts[2]))

RECURSIVE SetCookiesOfSegments(_, _)
SetCookiesOfSegments(jar, segments) ==
    IF segments = <<>> THEN jar
    ELSE SetCookiesOfSegments(SetCookieOfSegment(jar, Head(segments)), Tail(segments))

\* AuthManager.SetCookiesFromString: the map it leaves; its error is always nil
SetCookiesFromString(jar, cookieStr) ==
    [err |-> "nil", cookies |-> SetCookiesOfSegments(jar, Split(cookieStr, ";"))]

(* setHeaders *)

\* fmt.Sprintf("%s=%s", name, value)
SprintfCookie(name, value) == name \o <<"=">> \o value

\* strings.Join(parts, "; ")
RECURSIVE Join(_)
Join(parts) ==
    IF Len(parts) = 1 THEN parts[1]
    ELSE parts[1] \o <<";", " ">> \o Join(Tail(parts))

\* the orders in which the range over am.cookies may go through the names
IterationOrders(jar) ==
    { o \in [1..Cardinality(DOMAIN jar) -> DOMAIN jar] :
        \A i, j \in DOMAIN o : i # j => o[i] # o[j] }

\* no Cookie header
NoHeader == [set |-> FALSE, value |-> <<>>]

\* (mutation) the header carries the first cookie of the iteration only
CookieHeaderOfFirst(jar, order) ==
    IF Len(order) = 0 THEN NoHeader
    ELSE [set |-> TRUE, value |-> SprintfCookie(order[1], jar[order[1]])]

\* setHeaders' Cookie header for the map iterated in the given order
CookieHeader(jar, order) ==
    LET cookieParts == [i \in 1..Len(order) |-> SprintfCookie(order[i], jar[order[i]])]
    IN  IF Len(cookieParts) > 0 THEN [set |-> TRUE, value |-> Join(cookieParts)]
        ELSE NoHeader

-----------------------------------------------------------------------------
(* cmd: the download command *)

\* the sub-items a view or season answer may list
MaxPages == 2

\* the data of a status-0 view answer: n pages numbered from 1, their part
\* titles all empty or all the same
ViewData ==
    { [bvid |-> "BV1", title |-> <<"t">>,
       pages |-> [k \in 1..n |-> [CID |-> 100 + k, Part |-> part, Page |-> k]]]
        : n \in 0..MaxPages, part \in {<<>>, <<"a">>} }

\* the data of a status-0 season answer: n episodes with index 1..n
SeasonData ==
    { [title |-> <<"s">>,
       episodes |-> [k \in 1..n |->
                        [bvid |-> "BV2", cid |-> 200 + k, title |-> <<"e">>, index |-> k]]]
        : n \in 0..MaxPages }

Rejected == [kind |-> "json", code |-> -404, data |-> [title |-> <<>>]]

\* a URL and what the metadata endpoint it leads to answers
Commands ==
    { [url |-> [path |-> "video", hasId |-> TRUE], answer |-> a]
        : a \in {TransportFailure, Rejected}
                \cup {[kind |-> "json", code |-> 0, data |-> d] : d \in ViewData} }
    \cup
    { [url |-> [path |-> "bangumi", hasId |-> TRUE], answer |-> a]
        : a \in {TransportFailure, Rejected}
                \cup {[kind |-> "json", code |-> 0, data |-> d] : d \in SeasonData} }
    \cup
    { [url |-> [path |-> p, hasId |-> FALSE], answer |-> TransportFailure]
        : p \in {"video", "other"} }

\* values of the --pages flag
PagesArgs ==
    { All, <<"1">>, <<"2", ",", "1">>, <<"1", "-", "3">>, <<"2", "-", "1">>, <<"x">> }

\* values of the --quality flag
QualityArgs == {"best", "720p"}

\* --audio-only, --video-only, or neither
Modes == {"both", "audio", "video"}

\* what the playurl endpoints answer while a collection is downloaded
LoopModernResponses ==
    { TransportFailure,
      [kind |-> "json", code |-> -404, video |-> <<>>, audio |-> <<>>],
      [kind |-> "json", code |-> 0, video |-> <<>>, audio |-> <<>>],
      [kind |-> "json", code |-> 0,
       video |-> << [id |-> 64, baseUrl |-> "v2", codecs |-> "hev1",
                     bandwidth |-> 1000, width |-> 1280, height |-> 720],
                    [id |-> 80, baseUrl |-> "v1", codecs |-> "avc1",
                     bandwidth |-> 2000, width |-> 1920, height |-> 1080] >>,
       audio |-> <<Audio1>>] }

LoopLegacyResponses ==
    { [kind |-> "json", code |-> 0, durl |-> <<>>, quality |-> 80],
      [kind |-> "json", code |-> 0,
       durl |-> << [url |-> "f1", size |-> 100, length |-> 10] >>, quality |-> 80] }

Unused == [st |-> "unused", url |-> "", path |-> <<>>]

Spawned(url, path) == [st |-> "spawned", url |-> url, path |-> path]

\* what is known of one sub-item of the loop
NewSub ==
    [streamReq |-> <<>>, outcome |-> "pending", err |-> "none",
     stream |-> NoStream, outputPath |-> <<>>, outputBefore |-> Absent,
     video |-> Unused, audio |-> Unused, merge |-> "none"]

EmptyDir == [p \in {} |-> EmptyFile]

\* no selection of its own is in progress
SelectIdle ==
    /\ selStreams = <<>>
    /\ selLabel = "best"
    /\ selPc = "idle"
    /\ selBest = NoStream
    /\ selByQuality = NoStream
    /\ selDownload = [err |-> "pending", stream |-> NoStream]
    /\ selFiles = EmptyDir

\* no metadata fetch of its own is in progress
MetaIdle ==
    /\ metaView = NoResp
    /\ metaPc = "idle"
    /\ metaOut = [err |-> "pending", info |-> NoVideoInfo]

\* no page selection of its own is in progress
PagesIdle ==
    /\ pgExpr = <<>>
    /\ pgText = <<>>
    /\ pgEpisodes = <<>>
    /\ pgPc = "idle"
    /\ pgOut = [ok |-> TRUE, episodes |-> <<>>]

\* no credential store of its own is in use
AuthIdle ==
    /\ cookies = NoCookies
    /\ cookieFile = NoCookieFile
    /\ authResult = "idle"
    /\ savedFrom = NoCookies
    /\ roundTrip = "none"
    /\ requests = <<>>

\* no cookie string is being set
CookieStringIdle ==
    /\ csSegments = <<>>
    /\ csText = <<>>
    /\ csBefore = NoCookies
    /\ csPc = "idle"
    /\ csOut = [err |-> "pending", cookies |-> NoCookies]

\* a text file that is not there
NoTextFile == [exists |-> FALSE, text |-> <<>>]

\* no login has been started
LoginIdle ==
    /\ importLines = <<>>
    /\ importFile = NoTextFile
    /\ polls = 0
    /\ lastPoll = NoResp
    /\ qrErr = [kind |-> "running"]

\* no account command has been started
AccountIdle ==
    /\ flags = [force |-> FALSE]
    /\ stdin = ""
    /\ acPc = "idle"
    /\ acErr = "running"
    /\ acOut = <<>>
    /\ fileBefore = NoCookieFile
    /\ memBefore = NoCookies
    /\ LoginIdle

\* generateFilename is not being called
FilenameIdle ==
    /\ fnTitle = <<>>
    /\ fnQuality = 0
    /\ fnFormat = <<>>
    /\ fnPc = "idle"
    /\ fnOut = <<>>

\* no channel: the nil chan
NilChan == [kind |-> "nil", cap |-> 0, buf |-> <<>>, receiving |-> FALSE]

\* nothing is being copied
ProgressIdle ==
    /\ prReader = <<>>
    /\ prTotal = 0
    /\ prProgress = NilChan
    /\ prReadBytes = 0
    /\ prReturned = <<>>
    /\ prReceived = <<>>
    /\ prPc = "idle"

FunctionsIdle == FilenameIdle /\ ProgressIdle

\* the components checked on their own are not in use
LibIdle ==
    /\ SelectIdle /\ MetaIdle /\ PagesIdle /\ AuthIdle /\ CookieStringIdle
    /\ AccountIdle /\ FunctionsIdle

\* cookies.json as the command may find it: absent, with the session cookie
\* only, with both essential cookies
StoredCookieFiles ==
    { NoCookieFile,
      CookieFileOf([n \in {SESSDATA} |-> <<"1">>]),
      CookieFileOf([n \in {SESSDATA, bili_jct} |-> <<"1">>]) }

\* (mutation) the command goes on whatever the store holds
authenticationNeverRequired(jar) == FALSE

\* runDownload's check of the store it loaded
authenticationRequired(jar) == ~IsAuthenticated(jar)

\* what runDownload prints before it returns "authentication required"
NotAuthenticatedMessage == "Not authenticated. Please login first using: goBili login"

\* the metadata endpoints ParseURL sends a request to: none for a URL whose
\* path or identifier is not recognised
ParseURLRequests(u) ==
    IF ~u.hasId THEN <<>>
    ELSE IF u.path = "video" THEN <<"view">>
    ELSE IF u.path = "bangumi" THEN <<"season">>
    ELSE <<>>

\* the command has not been started
DownloadIdle ==
    /\ args = [url |-> [path |-> "other", hasId |-> FALSE], pages |-> All,
               quality |-> "best", mode |-> "both", format |-> Mp4]
    /\ metaAnswer = TransportFailure
    /\ ffmpegOnPath = FALSE
    /\ pc = "idle"
    /\ cmdErr = "running"
    /\ videoInfo = NoVideoInfo
    /\ items = <<>>
    /\ inLoop = FALSE
    /\ cur = 0
    /\ sub = <<>>
    /\ files = EmptyDir
    /\ metaRequests = <<>>
    /\ stdout = <<>>

\* no stream resolution of its own is in progress
ResolveIdle ==
    /\ resolvePc = "idle"
    /\ modernResp = NoResp
    /\ legacyResp = NoResp
    /\ resolveOut = NotReturned

DownloadInit ==
    /\ \E c \in Commands :
         /\ metaAnswer = c.answer
         /\ \E p \in PagesArgs, q \in QualityArgs, m \in Modes :
              args = [url |-> c.url, pages |-> p, quality |-> q, mode |-> m,
                      format |-> Mp4]
    /\ ffmpegOnPath \in BOOLEAN
    /\ pc = "start"
    /\ cmdErr = "running"
    /\ videoInfo = NoVideoInfo
    /\ items = <<>>
    /\ inLoop = FALSE
    /\ cur = 0
    /\ sub = <<>>
    /\ files = EmptyDir
    /\ metaRequests = <<>>
    /\ stdout = <<>>
    /\ cookies = NoCookies
    /\ cookieFile \in StoredCookieFiles
    /\ authResult = "idle"
    /\ savedFrom = NoCookies
    /\ roundTrip = "none"
    /\ requests = <<>>
    /\ ResolveIdle
    /\ SelectIdle /\ MetaIdle /\ PagesIdle /\ CookieStringIdle /\ AccountIdle
    /\ FunctionsIdle

\* (mutation) a failed sub-item ends the loop (break)
afterFailureBreak(k, n) == n + 1

\* the position the loop goes to after a sub-item that failed (continue)
afterFailure(k, n) == k + 1

\* the command goes on with position k of n, or returns nil after the last
GoOn(k, n) ==
    /\ cur' = k
    /\ IF k > n THEN pc' = "done" /\ cmdErr' = "none"
       ELSE pc' = "resolve" /\ cmdErr' = cmdErr

\* the sub-item at cur failed with error e: the loop prints it and continues,
\* downloadSingleVideo returns it
SubItemFails(s, e) ==
    /\ sub' = [s EXCEPT ![cur].outcome = "failed", ![cur].err = e]
    /\ IF inLoop THEN GoOn(afterFailure(cur, Len(items)), Len(items))
       ELSE cur' = cur /\ pc' = "done" /\ cmdErr' = e

\* DownloadVideo returned nil for the sub-item at cur
SubItemDone(s) ==
    /\ sub' = [s EXCEPT ![cur].outcome = "ok"]
    /\ GoOn(cur + 1, Len(items))

\* runDownload from ParseURL on, up to the loop: downloadSingleVideo or
\* downloadPlaylist up to its first sub-item
ParseAndDispatch ==
    /\ metaRequests' = ParseURLRequests(args.url)
    /\ LET r == ParseURL(args.url, metaAnswer)
       IN  IF r.err # "none"
           THEN /\ pc' = "done" /\ cmdErr' = "parse_url"
                /\ UNCHANGED <<videoInfo, items, inLoop, cur, sub>>
           ELSE /\ videoInfo' = r.info
                /\ IF r.info.Type = "video" /\ Len(r.info.Pages) <= 1
                   THEN /\ inLoop' = FALSE
                        /\ items' = <<[info |-> r.info, pageNum |-> 1, cid |-> 0]>>
                        /\ sub' = <<NewSub>>
                        /\ cur' = 1 /\ pc' = "resolve" /\ cmdErr' = cmdErr
                   ELSE LET sel == episodesToDownloadOf(r.info.Episodes, args.pages)
                        IN  IF ~sel.ok
                            THEN /\ pc' = "done" /\ cmdErr' = "pages"
                                 /\ UNCHANGED <<items, inLoop, cur, sub>>
                            ELSE /\ inLoop' = TRUE
                                 /\ items' = [i \in 1..Len(sel.episodes) |->
                                                [info |-> EpisodeVideoInfo(r.info, sel.episodes[i]),
                                                 pageNum |-> sel.episodes[i].Index,
                                                 cid |-> sel.episodes[i].CID]]
                                 /\ sub' = [i \in 1..Len(sel.episodes) |-> NewSub]
                                 /\ GoOn(1, Len(sel.episodes))

\* runDownload up to the loop: a new store loads cookies.json, the command
\* goes on only with a store that is authenticated
RunDownload ==
    /\ pc = "start"
    /\ cookies' = LoadCookiesOn(NoCookies, cookieFile)
    /\ IF authenticationRequired(cookies')
       THEN /\ stdout' = <<NotAuthenticatedMessage>>
            /\ pc' = "done" /\ cmdErr' = "authentication required"
            /\ UNCHANGED <<videoInfo, items, inLoop, cur, sub, metaRequests>>
       ELSE /\ stdout' = stdout
            /\ ParseAndDispatch
    /\ UNCHANGED <<args, metaAnswer, ffmpegOnPath, files, resolveVars, selVars,
                   metaVars, pgVars, csVars, acVars, dfVars, cookieFile, authResult, savedFrom,
                   roundTrip, requests>>

\* DownloadVideo up to its transfers: the stream is selected, the file named
\* and the transfers of the mode set up
StartTransfers(s, streams) ==
    LET stream     == selectStream(streams, args.quality)
        outputPath == generateFilename(items[cur].info.Title, stream.Quality, args.format)
        named      == [s EXCEPT ![cur].stream = stream,
                                    ![cur].outputPath = outputPath,
                                    ![cur].outputBefore = FileAt(files, outputPath)]
    IN  CASE args.mode = "audio" ->
               [named EXCEPT ![cur].audio = Spawned(stream.AudioURL, audioOnlyPath(outputPath))]
          [] args.mode = "video" ->
               [named EXCEPT ![cur].video = Spawned(stream.VideoURL, videoOnlyPath(outputPath))]
          [] OTHER ->
               [named EXCEPT ![cur].video = Spawned(stream.VideoURL, videoTempPath(outputPath)),
                             ![cur].audio = Spawned(stream.AudioURL, audioTempPath(outputPath))]

\* one turn of the loop up to the transfers: GetVideoStreamsForPage, then
\* DownloadVideo's selection and naming
GetStreams ==
    /\ pc = "resolve"
    /\ LET item == items[cur]
           cid  == CidForPage(item.info, item.pageNum)
       IN  IF cid = 0
           THEN SubItemFails(sub, "no_pages")
           ELSE \E m \in LoopModernResponses, l \in LoopLegacyResponses :
                  LET r   == resolveVariants(m, l)
                      req == [sub EXCEPT ![cur].streamReq =
                                            <<[bvid |-> item.info.BVID, cid |-> cid]>>]
                  IN  IF r.err # "none" THEN SubItemFails(req, "streams")
                      ELSE IF Len(r.streams) = 0 THEN SubItemFails(req, "no_stream")
                      ELSE /\ sub' = StartTransfers(req, r.streams)
                           /\ pc' = "fetching"
                           /\ UNCHANGED <<cur, cmdErr>>
    /\ UNCHANGED <<args, metaAnswer, metaRequests, stdout, ffmpegOnPath, videoInfo, items, inLoop,
                   files, resolveVars, libVars>>

\* downloadFile of transfer g of position k: os.Create
TransferCreate(k, g) ==
    /\ pc \in {"resolve", "fetching", "done"}
    /\ LET t == IF g = "video" THEN sub[k].video ELSE sub[k].audio
       IN  /\ t.st = "spawned"
           /\ files' = WriteFile(files, t.path, EmptyFile)
           /\ sub' = IF g = "video" THEN [sub EXCEPT ![k].video.st = "requesting"]
                     ELSE [sub EXCEPT ![k].audio.st = "requesting"]
    /\ UNCHANGED <<args, metaAnswer, metaRequests, stdout, ffmpegOnPath, pc, cmdErr, videoInfo, items,
                   inLoop, cur, resolveVars, libVars>>

\* downloadFile of transfer g of position k: the request and the copy of its
\* body; a request for the empty URL cannot be made
TransferEnd(k, g) ==
    /\ pc \in {"resolve", "fetching", "done"}
    /\ LET t == IF g = "video" THEN sub[k].video ELSE sub[k].audio
       IN  /\ t.st = "requesting"
           /\ \E ok \in BOOLEAN :
                /\ ok => t.url # ""
                /\ files' =
                     IF ok THEN WriteFile(files, t.path, BodyOf(t.url))
                     ELSE WriteFile(files, t.path, PartialOf(t.url))
                /\ sub' =
                     LET st == IF ok THEN "ok" ELSE "failed"
                     IN  IF g = "video" THEN [sub EXCEPT ![k].video.st = st]
                         ELSE [sub EXCEPT ![k].audio.st = st]
    /\ UNCHANGED <<args, metaAnswer, metaRequests, stdout, ffmpegOnPath, pc, cmdErr, videoInfo, items,
                   inLoop, cur, resolveVars, libVars>>

\* what a run of the merge step may meet
FfmpegOutcomes == IF ffmpegOnPath THEN {"runs", "fails"} ELSE {"missing"}

\* downloadVideoAndAudio from wg.Wait() on: the join, then the merge
JoinAndMerge ==
    /\ pc = "fetching"
    /\ args.mode = "both"
    /\ waitGroupDone(sub[cur].video.st, sub[cur].audio.st)
    /\ LET e == joinError(sub[cur].video.st, sub[cur].audio.st)
       IN  IF e # "none"
           THEN SubItemFails(sub, e) /\ files' = files
           ELSE \E ff \in FfmpegOutcomes :
                  LET r == mergeVideoAndAudio(files, sub[cur].video.path,
                                              sub[cur].audio.path,
                                              sub[cur].outputPath, ff)
                      merged == [sub EXCEPT ![cur].merge = ff]
                  IN  /\ files' = r.fs
                      /\ IF r.err # "none" THEN SubItemFails(merged, "copy")
                         ELSE SubItemDone(merged)
    /\ UNCHANGED <<args, metaAnswer, metaRequests, stdout, ffmpegOnPath, videoInfo, items, inLoop,
                   resolveVars, libVars>>

\* downloadAudio or downloadVideoOnly: its one downloadFile has returned
SingleTransferReturns ==
    /\ pc = "fetching"
    /\ args.mode # "both"
    /\ LET t == IF args.mode = "video" THEN sub[cur].video ELSE sub[cur].audio
       IN  /\ Terminated(t.st)
           /\ IF t.st = "failed" THEN SubItemFails(sub, args.mode)
              ELSE SubItemDone(sub)
    /\ UNCHANGED <<args, metaAnswer, metaRequests, stdout, ffmpegOnPath, videoInfo, items, inLoop,
                   files, resolveVars, libVars>>

DownloadNext ==
    \/ RunDownload
    \/ GetStreams
    \/ \E k \in DOMAIN sub, g \in {"video", "audio"} : TransferCreate(k, g)
    \/ \E k \in DOMAIN sub, g \in {"video", "audio"} : TransferEnd(k, g)
    \/ JoinAndMerge
    \/ SingleTransferReturns

SpecDownload == DownloadInit /\ [][DownloadNext]_allVars

ResolveInit ==
    /\ resolvePc = "modern"
    /\ modernResp \in ModernResponses
    /\ legacyResp = NoResp
    /\ resolveOut = NotReturned
    /\ DownloadIdle
    /\ LibIdle

ResolveNext ==
    \/ getVideoStreamsByCID(modernResp)
    \/ \E l \in LegacyResponses : getLegacyVideoStreams(l)

SpecResolve == ResolveInit /\ [][ResolveNext]_allVars

-----------------------------------------------------------------------------
(* Stream selection on its own: the parser's two functions and the          *)
(* downloader's selection are called with one stream list and one label    *)

\* the stream lists stream resolution returns: the dash renditions of the
\* tiers of qualityMap in any order, or the durl list under one quality id
StreamLists ==
    { DashStreams(v, <<Audio1>>)
        : v \in SeqsUpTo({d \in DashVideos : d.id \in DOMAIN qualityMap}, MaxVideo) }
    \cup
    { LegacyStreams(d, q) : d \in SeqsUpTo(Durls, MaxDurl), q \in ApiQualityIds }

\* values of the quality label: those of the maps, and one that is in neither
SelectLabels == {"best", "1080p", "720p", "480p", "360p", "4k"}

\* the title of the video DownloadVideo is called for
SelectTitle == <<"t">>

SelectInit ==
    /\ selStreams \in StreamLists
    /\ selLabel \in SelectLabels
    /\ selPc = "best"
    /\ selBest = NoStream
    /\ selByQuality = NoStream
    /\ selDownload = [err |-> "pending", stream |-> NoStream]
    /\ selFiles = EmptyDir
    /\ ResolveIdle
    /\ DownloadIdle
    /\ MetaIdle
    /\ PagesIdle
    /\ AuthIdle
    /\ CookieStringIdle
    /\ AccountIdle
    /\ FunctionsIdle

\* a call of BilibiliParser.GetBestQualityStream
CallGetBestQualityStream ==
    /\ selPc = "best"
    /\ selBest' = GetBestQualityStream(selStreams)
    /\ selPc' = "byQuality"
    /\ UNCHANGED <<selStreams, selLabel, selByQuality, selDownload, selFiles,
                   resolveVars, dlVars, metaVars, pgVars,
                   authVars, csVars, acVars, dfVars>>

\* a call of BilibiliParser.GetStreamByQuality
CallGetStreamByQuality ==
    /\ selPc = "byQuality"
    /\ selByQuality' = GetStreamByQuality(selStreams, selLabel)
    /\ selPc' = "download"
    /\ UNCHANGED <<selStreams, selLabel, selBest, selDownload, selFiles,
                   resolveVars, dlVars, metaVars, pgVars,
                   authVars, csVars, acVars, dfVars>>

\* Downloader.DownloadVideo up to its transfers: selectStream, and the return
\* of "no suitable stream found" when it gives nil
DownloadVideoSelects ==
    /\ selPc = "download"
    /\ LET stream == selectStream(selStreams, selLabel)
       IN  IF stream = NoStream
           THEN /\ selDownload' = [err |-> "no_stream", stream |-> NoStream]
                /\ selPc' = "done"
           ELSE /\ selDownload' = [err |-> "none", stream |-> stream]
                /\ selPc' = "create"
    /\ UNCHANGED <<selStreams, selLabel, selBest, selByQuality, selFiles,
                   resolveVars, dlVars, metaVars, pgVars,
                   authVars, csVars, acVars, dfVars>>

\* downloadVideoAndAudio's two downloadFile calls create their files
DownloadVideoCreates ==
    /\ selPc = "create"
    /\ LET outputPath == generateFilename(SelectTitle, selDownload.stream.Quality, Mp4)
       IN  selFiles' = WriteFile(WriteFile(selFiles, videoTempPath(outputPath), EmptyFile),
                                 audioTempPath(outputPath), EmptyFile)
    /\ selPc' = "done"
    /\ UNCHANGED <<selStreams, selLabel, selBest, selByQuality, selDownload,
                   resolveVars, dlVars, metaVars, pgVars,
                   authVars, csVars, acVars, dfVars>>

SelectNext ==
    \/ CallGetBestQualityStream
    \/ CallGetStreamByQuality
    \/ DownloadVideoSelects
    \/ DownloadVideoCreates

SpecSelect == SelectInit /\ [][SelectNext]_allVars

-----------------------------------------------------------------------------
(* Item metadata on its own: ParseURL is called with a video URL *)

\* the most pages a view answer lists
MaxParts == 3

\* the data of a status-0 view answer: n pages, each with a part title, empty
\* or not, and a page number; the platform numbers the pages of a video
\* 1..n, an answer with a page object without the field (read as 0) is not
\* one of the platform's
ViewAnswersData ==
    UNION { { [bvid |-> "BV1", title |-> <<"t">>,
               pages |-> [k \in 1..n |->
                            [CID |-> 100 + k, Part |-> parts[k],
                             Page |-> IF numbered[k] THEN k ELSE 0]]]
                : parts \in [1..n -> {<<>>, <<"a">>, <<"b">>}],
                  numbered \in [1..n -> BOOLEAN] }
            : n \in 0..MaxParts }

ViewAnswers ==
    {TransportFailure, Rejected}
    \cup {[kind |-> "json", code |-> 0, data |-> d] : d \in ViewAnswersData}

VideoURL == [path |-> "video", hasId |-> TRUE]

MetaInit ==
    /\ metaView \in ViewAnswers
    /\ metaPc = "call"
    /\ metaOut = [err |-> "pending", info |-> NoVideoInfo]
    /\ ResolveIdle
    /\ DownloadIdle
    /\ SelectIdle
    /\ PagesIdle
    /\ AuthIdle
    /\ CookieStringIdle
    /\ AccountIdle
    /\ FunctionsIdle

\* a call of BilibiliParser.ParseURL with a /video/ URL
CallParseURL ==
    /\ metaPc = "call"
    /\ metaOut' = ParseURL(VideoURL, metaView)
    /\ metaPc' = "done"
    /\ UNCHANGED <<metaView, resolveVars, dlVars, selVars, pgVars, authVars,
                   csVars, acVars, dfVars>>

MetaNext == CallParseURL

SpecMeta == MetaInit /\ [][MetaNext]_allVars

-----------------------------------------------------------------------------
(* Page selection on its own: downloadPlaylist chooses episodesToDownload *)

\* the most episodes of the collection
MaxEpisodes == 5
\* the most comma-separated parts of a --pages expression
MaxExprParts == 2

\* videoInfo.Episodes of a collection of n sub-items
EpisodesOf(n) ==
    [k \in 1..n |-> [BVID |-> "BV1", CID |-> 100 + k, Title |-> <<"t">>, Index |-> k]]

\* what the user may mean by one part: a page number, padded with spaces or
\* not, a range of page numbers, a word, or nothing
ExprParts ==
    { [kind |-> "num", a |-> k, b |-> k, pad |-> sp]
        : k \in 1..(MaxEpisodes + 1), sp \in BOOLEAN }
    \cup
    { [kind |-> "range", a |-> k, b |-> k + d, pad |-> FALSE]
        : k \in 1..(MaxEpisodes + 1), d \in {-1, 0, 1} }
    \cup
    { [kind |-> w, a |-> 0, b |-> 0, pad |-> FALSE] : w \in {"word", "empty"} }

\* the user's expressions: "all", or up to MaxExprParts parts
Exprs ==
    { <<[kind |-> "all", a |-> 0, b |-> 0, pad |-> FALSE]>> }
    \cup UNION { [1..n -> ExprParts] : n \in 1..MaxExprParts }

\* how a part is typed
TypedPart(part) ==
    CASE part.kind = "all"   -> <<"a", "l", "l">>
      [] part.kind = "num"   -> IF part.pad THEN <<" ">> \o Itoa(part.a) \o <<" ">>
                                ELSE Itoa(part.a)
      [] part.kind = "range" -> Itoa(part.a) \o <<"-">> \o Itoa(part.b)
      [] part.kind = "word"  -> <<"x">>
      [] OTHER               -> <<>>

\* how an expression is typed: its parts with commas between them
RECURSIVE Typed(_)
Typed(expr) ==
    IF Len(expr) = 1 THEN TypedPart(expr[1])
    ELSE TypedPart(Head(expr)) \o <<",">> \o Typed(Tail(expr))

PagesInit ==
    /\ pgExpr \in Exprs
    /\ pgText = Typed(pgExpr)
    /\ pgEpisodes \in {EpisodesOf(1), EpisodesOf(MaxEpisodes)}
    /\ pgPc = "call"
    /\ pgOut = [ok |-> TRUE, episodes |-> <<>>]
    /\ ResolveIdle
    /\ DownloadIdle
    /\ SelectIdle
    /\ MetaIdle
    /\ AuthIdle
    /\ CookieStringIdle
    /\ AccountIdle
    /\ FunctionsIdle

\* downloadPlaylist up to its loop
SelectEpisodes ==
    /\ pgPc = "call"
    /\ pgOut' = episodesToDownloadOf(pgEpisodes, pgText)
    /\ pgPc' = "done"
    /\ UNCHANGED <<pgExpr, pgText, pgEpisodes, resolveVars, dlVars, selVars, metaVars,
                   authVars, csVars, acVars, dfVars>>

PagesNext == SelectEpisodes

SpecPages == PagesInit /\ [][PagesNext]_allVars

-----------------------------------------------------------------------------
(* The credential store on its own: its operations in any order *)

\* the names of the cookies that are set
CookieNames == {SESSDATA, bili_jct}

\* the values they are set to: none, plain text, text that JSON escapes, and
\* a byte that is no valid UTF-8
CookieValues == {<<>>, <<"1">>, <<"<", "\"">>, <<InvalidByte>>}

\* what SetCookiesFromString is called with
CookieStrings ==
    { <<"S", "E", "S", "S", "D", "A", "T", "A", "=", "1", ";", " ", "b", "i", "l", "i", "_", "j", "c", "t", "=", "1">>,
      <<"S", "E", "S", "S", "D", "A", "T", "A", "=">>,
      <<" ", "b", "i", "l", "i", "_", "j", "c", "t", " ", "=", " ", "1", " ", ";", "x">> }

\* the query parameters of the redirect URL of a successful scan
LoginParams ==
    { NoCookies,
      [n \in {SESSDATA} |-> <<"1">>],
      [n \in {SESSDATA, bili_jct} |-> <<"1">>] }

othersIdle ==
    /\ ResolveIdle /\ DownloadIdle /\ SelectIdle /\ MetaIdle /\ PagesIdle
    /\ CookieStringIdle /\ AccountIdle /\ FunctionsIdle

otherVars == <<resolveVars, dlVars, selVars, metaVars, pgVars, csVars, acVars, dfVars>>

AuthInit ==
    /\ cookies = NoCookies
    /\ cookieFile = NoCookieFile
    /\ authResult = "unasked"
    /\ savedFrom = NoCookies
    /\ roundTrip = "none"
    /\ requests = <<>>
    /\ othersIdle

\* auth.NewAuthManager: a process starts with an empty map
NewAuthManager ==
    /\ cookies' = NoCookies
    /\ authResult' = "unasked"
    /\ roundTrip' = IF cookieFile.exists THEN "saved" ELSE "none"
    /\ UNCHANGED <<cookieFile, savedFrom, requests, otherVars>>

\* AuthManager.LoadCookies
LoadCookies ==
    /\ cookies' = LoadCookiesOn(cookies, cookieFile)
    /\ authResult' = "unasked"
    /\ roundTrip' = IF roundTrip = "saved" /\ cookieFile.exists THEN "loaded" ELSE "none"
    /\ UNCHANGED <<cookieFile, savedFrom, requests, otherVars>>

\* AuthManager.SaveCookies
SaveCookies ==
    /\ cookieFile' = CookieFileOf(cookies)
    /\ savedFrom' = cookies
    /\ roundTrip' = "saved"
    /\ UNCHANGED <<cookies, authResult, requests, otherVars>>

\* AuthManager.SetCookie
SetCookie(name, value) ==
    /\ cookies' = WithCookie(cookies, name, value)
    /\ authResult' = "unasked"
    /\ roundTrip' = "none"
    /\ UNCHANGED <<cookieFile, savedFrom, requests, otherVars>>

\* AuthManager.SetCookiesFromString
CallSetCookiesFromString(cookieStr) ==
    /\ cookies' = SetCookiesFromString(cookies, cookieStr).cookies
    /\ authResult' = "unasked"
    /\ roundTrip' = "none"
    /\ UNCHANGED <<cookieFile, savedFrom, requests, otherVars>>

\* AuthManager.ClearCookies
ClearCookies ==
    /\ cookies' = NoCookies
    /\ authResult' = "unasked"
    /\ roundTrip' = "none"
    /\ UNCHANGED <<cookieFile, savedFrom, requests, otherVars>>

\* AuthManager.LoginWithQRCode that succeeds: the cookies of the redirect URL
\* are stored and the map is saved
LoginWithQRCode(params) ==
    /\ cookies' = parseCookiesFromURL(cookies, params, cookieNames)
    /\ cookieFile' = CookieFileOf(cookies')
    /\ savedFrom' = cookies'
    /\ authResult' = "unasked"
    /\ roundTrip' = "saved"
    /\ UNCHANGED <<requests, requests, otherVars>>

\* a call of AuthManager.IsAuthenticated
CallIsAuthenticated ==
    /\ authResult' = IF IsAuthenticated(cookies) THEN "yes" ELSE "no"
    /\ roundTrip' = roundTrip
    /\ UNCHANGED <<cookies, cookieFile, savedFrom, requests, otherVars>>

AuthNext ==
    \/ NewAuthManager
    \/ LoadCookies
    \/ SaveCookies
    \/ \E name \in CookieNames, value \in CookieValues : SetCookie(name, value)
    \/ \E cookieStr \in CookieStrings : CallSetCookiesFromString(cookieStr)
    \/ ClearCookies
    \/ \E params \in LoginParams : LoginWithQRCode(params)
    \/ CallIsAuthenticated

SpecAuth == AuthInit /\ [][AuthNext]_allVars

-----------------------------------------------------------------------------
(* The request builder: requests are built while the store changes *)

\* the most requests that are built
MaxRequests == 2

\* the values the cookies are set to between the builds
RequestValues == {<<"1">>, <<"2">>}

RequestInit ==
    /\ cookies = NoCookies
    /\ cookieFile = NoCookieFile
    /\ authResult = "unasked"
    /\ savedFrom = NoCookies
    /\ roundTrip = "none"
    /\ requests = <<>>
    /\ othersIdle

\* AuthManager.CreateAuthenticatedRequest with a well-formed URL: setHeaders
\* goes through am.cookies in one of the orders a range over a map may take
CreateAuthenticatedRequest(order) ==
    /\ Len(requests) < MaxRequests
    /\ order \in IterationOrders(cookies)
    /\ requests' = Append(requests, [cookie |-> CookieHeader(cookies, order),
                                      from   |-> cookies])
    /\ UNCHANGED <<cookies, cookieFile, authResult, savedFrom, roundTrip, otherVars>>

RequestNext ==
    \/ \E name \in CookieNames, value \in RequestValues : SetCookie(name, value)
    \/ ClearCookies
    \/ \E order \in IterationOrders(cookies) : CreateAuthenticatedRequest(order)

SpecRequest == RequestInit /\ [][RequestNext]_allVars

-----------------------------------------------------------------------------
(* SetCookiesFromString on its own: one call with one cookie string *)

\* the most segments of a cookie string
MaxSegments == 3

\* what the caller may mean by one segment: a name and a value, written
\* without spaces, with spaces around the segment or with spaces around the
\* "=", or a text without "="
Segments ==
    { [kind |-> "pair", name |-> <<n>>, value |-> <<v>>, pad |-> p]
        : n \in {"a", "b"}, v \in {"1", "2"}, p \in {"none", "outer", "inner"} }
    \cup
    { [kind |-> "pair", name |-> <<"a">>, value |-> v, pad |-> "none"]
        : v \in {<<>>, <<"1", "=", "2">>} }
    \cup
    { [kind |-> "bare", name |-> t, value |-> <<>>, pad |-> "none"]
        : t \in {<<"c">>, <<" ", "c">>, <<>>} }

\* how a segment is written
SegmentText(seg) ==
    CASE seg.kind = "bare"  -> seg.name
      [] seg.pad = "outer"  -> <<" ">> \o seg.name \o <<"=">> \o seg.value \o <<" ">>
      [] seg.pad = "inner"  -> seg.name \o <<" ", "=", " ">> \o seg.value
      [] OTHER              -> seg.name \o <<"=">> \o seg.value

\* how a cookie string is written: its segments with ";" between them
RECURSIVE CookieStringOf(_)
CookieStringOf(segs) ==
    IF Len(segs) = 1 THEN SegmentText(segs[1])
    ELSE SegmentText(Head(segs)) \o <<";">> \o CookieStringOf(Tail(segs))

\* the maps the call finds: an empty one, and one that holds a name the
\* string sets and a name it does not
StoresBefore ==
    { NoCookies,
      [n \in {<<"a">>, <<"z">>} |-> IF n = <<"a">> THEN <<"9">> ELSE <<"0">>] }

CookieStringInit ==
    /\ csSegments \in UNION { [1..n -> Segments] : n \in 1..MaxSegments }
    /\ csText = CookieStringOf(csSegments)
    /\ csBefore \in StoresBefore
    /\ csPc = "call"
    /\ csOut = [err |-> "pending", cookies |-> NoCookies]
    /\ ResolveIdle
    /\ DownloadIdle
    /\ SelectIdle
    /\ MetaIdle
    /\ PagesIdle
    /\ AuthIdle
    /\ AccountIdle
    /\ FunctionsIdle

\* the call of AuthManager.SetCookiesFromString
SetCookiesFromStringReturns ==
    /\ csPc = "call"
    /\ csOut' = SetCookiesFromString(csBefore, csText)
    /\ csPc' = "done"
    /\ UNCHANGED <<csSegments, csText, csBefore, resolveVars, dlVars, selVars,
                   metaVars, pgVars, authVars, acVars, dfVars>>

CookieStringNext == SetCookiesFromStringReturns

SpecCookieString == CookieStringInit /\ [][CookieStringNext]_allVars

-----------------------------------------------------------------------------
(* generateFilename on its own: it is called with a title, a quality and a *)
(* format.  A Go string is a sequence of bytes: a character of ASCII is    *)
(* one byte, a character of the CJK block is three in UTF-8.               *)

\* the longest title, in characters
MaxTitle == 150

\* a character that takes three bytes
WideChar == "U+4E2D"

\* the bytes of its UTF-8 encoding
WideBytes == <<"0xE4", "0xB8", "0xAD">>

Repeat(c, n) == [i \in 1..n |-> c]

\* the lengths of the titles, in characters: around the cut in bytes for
\* wide characters and for characters of one byte
TitleLengths == {0, 1, 33, 34, TitleMax - 1, TitleMax, TitleMax + 1, MaxTitle}

\* the titles: one character repeated, the hostile characters in a row, and
\* titles with a hostile or a wide character at the cut
Titles ==
    { Repeat(c, n) : c \in {"a", "/", WideChar}, n \in TitleLengths }
    \cup { HostileChars,
           <<"a", "/", "b", ":", "c", "?">> \o Repeat("a", MaxTitle - 6),
           Repeat("a", TitleMax - 1) \o <<WideChar>>,
           Repeat("a", TitleMax - 1) \o <<"|", "|">>,
           Repeat("a", TitleMax) \o <<"/">> }

\* the string of a title: its characters in UTF-8
RECURSIVE BytesOf(_)
BytesOf(chars) ==
    IF chars = <<>> THEN <<>>
    ELSE IF Len(chars) = 1
    THEN (IF chars[1] = WideChar THEN WideBytes ELSE chars)
    ELSE LET half == Len(chars) \div 2
         IN  BytesOf(SubSeq(chars, 1, half)) \o BytesOf(SubSeq(chars, half + 1, Len(chars)))

\* the values of --format
Formats == {Mp4, <<"f", "l", "v">>}

FilenameInit ==
    /\ fnTitle \in Titles
    /\ fnQuality \in ApiQualityIds
    /\ fnFormat \in Formats
    /\ fnPc = "call"
    /\ fnOut = <<>>
    /\ ProgressIdle
    /\ ResolveIdle /\ DownloadIdle /\ SelectIdle /\ MetaIdle /\ PagesIdle
    /\ AuthIdle /\ CookieStringIdle /\ AccountIdle

\* the call of Downloader.generateFilename
GenerateFilenameReturns ==
    /\ fnPc = "call"
    /\ fnOut' = generateFilename(BytesOf(fnTitle), fnQuality, fnFormat)
    /\ fnPc' = "done"
    /\ UNCHANGED <<fnTitle, fnQuality, fnFormat, prVars, resolveVars, dlVars,
                   selVars, metaVars, pgVars, authVars, csVars, acVars>>

FilenameNext == GenerateFilenameReturns

SpecFilename == FilenameInit /\ [][FilenameNext]_allVars

-----------------------------------------------------------------------------
(* DownloadWithProgress: io.Copy calls ProgressReader.Read until it returns *)
(* an error; the consumer of the progress channel receives when it likes.  *)

\* the calls of Read one body takes
MaxReads == 3

\* the capacity of the progress channel
MaxCap == 2

\* what pr.Reader.Read returns for one body: some bytes each time without an
\* error, then the end of the body or an error of the connection
ReaderResults ==
    { rs \in SeqsUpTo([n : 0..2, err : {"nil", "EOF", "unexpected EOF"}], MaxReads) :
        /\ rs # <<>>
        /\ \A i \in 1..Len(rs) : (rs[i].err = "nil") <=> (i < Len(rs))
        /\ \A i \in 1..Len(rs) : rs[i].err = "nil" => rs[i].n > 0 }

\* the channel DownloadWithProgress is called with: nil, unbuffered or
\* buffered, with nobody receiving yet
ProgressChans ==
    { NilChan }
    \cup { [kind |-> "chan", cap |-> c, buf |-> <<>>, receiving |-> FALSE] : c \in 0..MaxCap }

\* a send on the channel can proceed at once: a receiver is waiting, or the
\* buffer has room
SendReady(ch) == ch.kind = "chan" /\ (ch.receiving \/ Len(ch.buf) < ch.cap)

\* the channel after a send that proceeded, and what the waiting receiver got
AfterSend(ch, ev) ==
    IF ch.receiving
    THEN [blocked |-> FALSE, chan |-> [ch EXCEPT !.receiving = FALSE], got |-> <<ev>>]
    ELSE [blocked |-> FALSE, chan |-> [ch EXCEPT !.buf = Append(ch.buf, ev)], got |-> <<>>]

\* (mutation) a plain send: pr.Progress <- progress
sendOrBlock(ch, ev) ==
    IF SendReady(ch) THEN AfterSend(ch, ev)
    ELSE [blocked |-> TRUE, chan |-> ch, got |-> <<>>]

\* select { case pr.Progress <- progress: default: }
sendOrDiscard(ch, ev) ==
    IF SendReady(ch) THEN AfterSend(ch, ev)
    ELSE [blocked |-> FALSE, chan |-> ch, got |-> <<>>]

\* Read's report for a channel that is not nil
Report(ch, ev) ==
    IF ch.kind = "nil" THEN [blocked |-> FALSE, chan |-> ch, got |-> <<>>]
    ELSE sendOrDiscard(ch, ev)

ProgressInit ==
    /\ prReader \in ReaderResults
    /\ prTotal \in {0, 4}
    /\ prProgress \in ProgressChans
    /\ prReadBytes = 0
    /\ prReturned = <<>>
    /\ prReceived = <<>>
    /\ prPc = "copy"
    /\ FilenameIdle
    /\ ResolveIdle /\ DownloadIdle /\ SelectIdle /\ MetaIdle /\ PagesIdle
    /\ AuthIdle /\ CookieStringIdle /\ AccountIdle

\* the variables nothing of the copy touches
nonProgressVars ==
    <<fnVars, resolveVars, dlVars, selVars, metaVars, pgVars, authVars, csVars, acVars>>

\* one call of ProgressReader.Read by io.Copy: the underlying Read, the
\* count, the report, the return of what the underlying Read returned; an
\* error ends the copy
ProgressRead ==
    /\ prPc = "copy"
    /\ LET r   == Head(prReader)
           ev  == [TotalSize |-> prTotal, Downloaded |-> prReadBytes + r.n]
           snd == Report(prProgress, ev)
       IN  /\ ~snd.blocked
           /\ prReadBytes' = prReadBytes + r.n
           /\ prProgress' = snd.chan
           /\ prReceived' = prReceived \o snd.got
           /\ prReturned' = Append(prReturned, [n |-> r.n, err |-> r.err])
           /\ prReader' = Tail(prReader)
           /\ prPc' = IF r.err # "nil" THEN "done" ELSE "copy"
    /\ UNCHANGED <<prTotal, nonProgressVars>>

\* the consumer takes the oldest event of the buffer
ConsumerReceives ==
    /\ prProgress.kind = "chan"
    /\ prProgress.buf # <<>>
    /\ prReceived' = Append(prReceived, Head(prProgress.buf))
    /\ prProgress' = [prProgress EXCEPT !.buf = Tail(prProgress.buf)]
    /\ UNCHANGED <<prReader, prTotal, prReadBytes, prReturned, prPc, nonProgressVars>>

\* the consumer begins to wait for an event on the empty channel
ConsumerWaits ==
    /\ prProgress.kind = "chan"
    /\ prProgress.buf = <<>>
    /\ ~prProgress.receiving
    /\ prProgress' = [prProgress EXCEPT !.receiving = TRUE]
    /\ UNCHANGED <<prReader, prTotal, prReadBytes, prReturned, prReceived, prPc,
                   nonProgressVars>>

ProgressNext ==
    \/ ProgressRead
    \/ ConsumerReceives
    \/ ConsumerWaits

SpecProgress == ProgressInit /\ [][ProgressNext]_allVars

\* the goroutine of the copy runs whenever it can; the consumer need not
FairSpecProgress ==
    ProgressInit /\ [][ProgressNext]_allVars /\ WF_allVars(ProgressRead)

-----------------------------------------------------------------------------
(* cmd: the logout command (src/cmd/logout.go, runLogout) *)

\* cookies.json as logout may find it
LogoutCookieFiles ==
    StoredCookieFiles
    \cup { CookieFileOf([n \in {bili_jct} |-> <<"1">>]),
           CookieFileOf([n \in {SESSDATA, bili_jct} |-> <<"<", "\"">>]) }

\* what the user may type at "Are you sure you want to logout? (y/N): "
LogoutInputs == {"y", "Y", "yes", "Yes", "YES", "n", ""}

\* runLogout's reading of the answer
Confirmed(input) == input \in {"y", "Y", "yes", "Yes"}

\* the variables no account command touches
nonAccountVars ==
    <<resolveVars, dlVars, selVars, metaVars, pgVars, csVars, dfVars, authResult,
      savedFrom, roundTrip, requests>>

\* the variables of login alone
loginVars == <<importLines, importFile, polls, lastPoll, qrErr>>

LogoutInit ==
    /\ flags \in [force : BOOLEAN]
    /\ stdin \in LogoutInputs
    /\ acPc = "start"
    /\ acErr = "running"
    /\ acOut = <<>>
    /\ cookieFile \in LogoutCookieFiles
    /\ fileBefore = cookieFile
    /\ memBefore = NoCookies
    /\ LoginIdle
    /\ cookies = NoCookies
    /\ authResult = "idle"
    /\ savedFrom = NoCookies
    /\ roundTrip = "none"
    /\ requests = <<>>
    /\ ResolveIdle /\ DownloadIdle /\ SelectIdle /\ MetaIdle /\ PagesIdle
    /\ CookieStringIdle /\ FunctionsIdle

\* runLogout up to its check: a new store loads cookies.json; without an
\* authenticated store the command returns nil
LogoutChecks ==
    /\ acPc = "start"
    /\ cookies' = LoadCookiesOn(NoCookies, cookieFile)
    /\ memBefore' = cookies'
    /\ IF ~IsAuthenticated(cookies')
       THEN /\ acOut' = <<"No active login session found.">>
            /\ acPc' = "done" /\ acErr' = "nil"
       ELSE /\ acPc' = "confirm"
            /\ UNCHANGED <<acOut, acErr>>
    /\ UNCHANGED <<flags, stdin, fileBefore, cookieFile, loginVars, nonAccountVars>>

\* runLogout from GetUserInfo, whose outcome is only printed, to the
\* confirmation: without --force the answer is read
LogoutConfirms ==
    /\ acPc = "confirm"
    /\ IF ~flags.force /\ ~Confirmed(stdin)
       THEN /\ acOut' = <<"Logout cancelled.">>
            /\ acPc' = "done" /\ acErr' = "nil"
       ELSE /\ acPc' = "remove"
            /\ UNCHANGED <<acOut, acErr>>
    /\ UNCHANGED <<flags, stdin, fileBefore, memBefore, cookies, cookieFile,
                   loginVars, nonAccountVars>>

\* runLogout from os.Stat on: the file is removed if it is there, then the
\* map is cleared; a removal that fails ends the command
LogoutRemoves ==
    /\ acPc = "remove"
    /\ acPc' = "done"
    /\ \E removed \in BOOLEAN :
         IF cookieFile.exists /\ ~removed
         THEN /\ acErr' = "failed to remove cookie file"
              /\ UNCHANGED <<acOut, cookies, cookieFile>>
         ELSE /\ cookieFile' = NoCookieFile
              /\ cookies' = NoCookies
              /\ acOut' = <<"Login session cleared">>
              /\ acErr' = "nil"
    /\ UNCHANGED <<flags, stdin, fileBefore, memBefore, loginVars, nonAccountVars>>

LogoutNext ==
    \/ LogoutChecks
    \/ LogoutConfirms
    \/ LogoutRemoves

SpecLogout == LogoutInit /\ [][LogoutNext]_allVars

-----------------------------------------------------------------------------
(* cmd: the login command (src/cmd/login.go) and AuthManager.LoginWithQRCode *)

DedeUserID == <<"D", "e", "d", "e", "U", "s", "e", "r", "I", "D">>

DedeUserID__ckMd5 ==
    <<"D", "e", "d", "e", "U", "s", "e", "r", "I", "D", "_", "_", "c", "k", "M", "d", "5">>

sid == <<"s", "i", "d">>

buvid3 == <<"b", "u", "v", "i", "d", "3">>

buvid4 == <<"b", "u", "v", "i", "d", "4">>

\* loadCookiesFromFile's essentialCookies
importedCookies ==
    {SESSDATA, bili_jct, DedeUserID, DedeUserID__ckMd5, sid, buvid3, buvid4}

\* strings.HasPrefix(line, "#")
HasPrefix(line, c) == line # <<>> /\ Head(line) = c

\* (mutation) the name and the value are the last two fields
NameAndValueLast(parts) ==
    [name  |-> TrimSpace(parts[Len(parts) - 1]), value |-> TrimSpace(parts[Len(parts)])]

\* the name and the value of a line of two fields or more
NameAndValue(parts) ==
    [name |-> TrimSpace(parts[1]), value |-> TrimSpace(parts[2])]

\* loadCookiesFromFile's loop body: the store and the count after one line
SetCookieOfLine(st, rawLine) ==
    LET line == TrimSpace(rawLine)
    IN  IF line = <<>> \/ HasPrefix(line, "#") THEN st
        ELSE LET parts == Split(line, "\t")
             IN  IF Len(parts) >= 2
                 THEN LET nv == NameAndValue(parts)
                      IN  IF nv.name \in importedCookies
                          THEN [cookies |-> WithCookie(st.cookies, nv.name, nv.value),
                                cookieCount |-> st.cookieCount + 1]
                          ELSE st
                 ELSE st

RECURSIVE SetCookiesOfLines(_, _)
SetCookiesOfLines(st, lines) ==
    IF lines = <<>> THEN st
    ELSE SetCookiesOfLines(SetCookieOfLine(st, Head(lines)), Tail(lines))

\* loadCookiesFromFile: the error it returns and the store it leaves
loadCookiesFromFile(jar, file) ==
    IF ~file.exists THEN [err |-> "cookie file does not exist", cookies |-> jar]
    ELSE LET st == SetCookiesOfLines([cookies |-> jar, cookieCount |-> 0],
                                     Split(file.text, "\n"))
         IN  IF st.cookieCount = 0
             THEN [err |-> "no valid cookies found in file", cookies |-> st.cookies]
             ELSE [err |-> "nil", cookies |-> st.cookies]

(* LoginWithQRCode's poll loop *)

\* (mutation) only "not scanned" lets the loop go on
pollCaseScannedIsFatal(code) ==
    CASE code = 0     -> "success"
      [] code = 86101 -> "continue"
      [] code = 86038 -> "expired"
      [] OTHER        -> "default"

\* the switch on status.Data.Code
pollCase(code) ==
    CASE code = 0     -> "success"
      [] code = 86101 -> "continue"
      [] code = 86090 -> "continue"
      [] code = 86038 -> "expired"
      [] OTHER        -> "default"

(* The login command: its inputs *)

\* the lines of a cookie file
MaxLines == 2

\* the polls of one login
MaxPolls == 3

\* a name that is in no list: the names are compared as they are written
sessdata == <<"s", "e", "s", "s", "d", "a", "t", "a">>

CookieLine(name, value, third, padded) ==
    [kind |-> "cookie", name |-> name, value |-> value, third |-> third,
     padded |-> padded]

\* the lines a cookie file is made of: a blank line, a comment that looks
\* like a cookie, a line of one field, and lines of a name, a value that may
\* be empty, and a third field or none, plain or with blanks around the fields
ImportLineSet ==
    { [kind |-> "blank", name |-> <<>>, value |-> <<>>, third |-> FALSE, padded |-> FALSE],
      [kind |-> "comment", name |-> SESSDATA, value |-> <<"1">>, third |-> FALSE, padded |-> FALSE],
      [kind |-> "single", name |-> SESSDATA, value |-> <<>>, third |-> FALSE, padded |-> FALSE],
      CookieLine(SESSDATA, <<"1">>, FALSE, FALSE),
      CookieLine(SESSDATA, <<"2">>, TRUE, FALSE),
      CookieLine(SESSDATA, <<>>, TRUE, FALSE),
      CookieLine(SESSDATA, <<>>, FALSE, FALSE),
      CookieLine(bili_jct, <<"1">>, FALSE, FALSE),
      CookieLine(bili_jct, <<"2">>, FALSE, TRUE),
      CookieLine(buvid3, <<"1">>, FALSE, FALSE),
      CookieLine(sessdata, <<"1">>, FALSE, FALSE) }

\* a field as it is typed
TypedField(field, padded) == IF padded THEN <<" ">> \o field \o <<" ">> ELSE field

\* a line as it is typed, without its line end
TypedLine(l) ==
    CASE l.kind = "blank"   -> <<" ">>
      [] l.kind = "comment" -> <<"#">> \o l.name \o <<"\t">> \o l.value
      [] l.kind = "single"  -> l.name
      [] OTHER ->
           TypedField(l.name, l.padded) \o <<"\t">> \o TypedField(l.value, l.padded)
           \o (IF l.third THEN <<"\t", ".", "d">> ELSE <<>>)

\* the text of a file of these lines, each ended by a line feed
RECURSIVE TypedLines(_)
TypedLines(lines) ==
    IF lines = <<>> THEN <<>>
    ELSE TypedLine(Head(lines)) \o <<"\n">> \o TypedLines(Tail(lines))

\* the redirect URL of a status-0 poll answer: one url.Parse rejects, or its
\* query parameters
RedirectURLs ==
    { [parses |-> FALSE, params |-> NoCookies] }
    \cup { [parses |-> TRUE, params |-> q] : q \in LoginParams }

NoURL == [parses |-> TRUE, params |-> NoCookies]

\* what a poll may be answered
PollAnswers ==
    { [kind |-> "failed", code |-> 0, message |-> "", url |-> NoURL] }
    \cup { [kind |-> "json", code |-> c, message |-> "m", url |-> NoURL]
             : c \in {86101, 86090, 86038, -1} }
    \cup { [kind |-> "json", code |-> 0, message |-> "", url |-> u]
             : u \in RedirectURLs }

\* what GetUserInfo may return: the user's data, or an error
UserInfoAnswers == {"ok", "failed"}

\* the command lines of login with the file --cookie-file names
LoginCommands ==
    { [flags |-> [browser |-> TRUE, cookieFile |-> ""], lines |-> <<>>,
       file |-> NoTextFile],
      [flags |-> [browser |-> FALSE, cookieFile |-> ""], lines |-> <<>>,
       file |-> NoTextFile],
      [flags |-> [browser |-> FALSE, cookieFile |-> "f"], lines |-> <<>>,
       file |-> NoTextFile] }
    \cup { [flags |-> [browser |-> FALSE, cookieFile |-> "f"], lines |-> ls,
            file |-> [exists |-> TRUE, text |-> TypedLines(ls)]]
             : ls \in SeqsUpTo(ImportLineSet, MaxLines) }

LoginInit ==
    /\ \E c \in LoginCommands :
         /\ flags = c.flags
         /\ importLines = c.lines
         /\ importFile = c.file
    /\ stdin \in {"", "q"}
    /\ stdin = "q" => flags.browser
    /\ acPc = "start"
    /\ acErr = "running"
    /\ acOut = <<>>
    /\ cookieFile \in StoredCookieFiles
    /\ fileBefore = cookieFile
    /\ memBefore = NoCookies
    /\ polls = 0
    /\ lastPoll = NoResp
    /\ qrErr = [kind |-> "running"]
    /\ cookies = NoCookies
    /\ authResult = "idle"
    /\ savedFrom = NoCookies
    /\ roundTrip = "none"
    /\ requests = <<>>
    /\ ResolveIdle /\ DownloadIdle /\ SelectIdle /\ MetaIdle /\ PagesIdle
    /\ CookieStringIdle /\ FunctionsIdle

\* the command returns err
LoginReturns(err) == acPc' = "done" /\ acErr' = err

\* runLogin up to its choice of a method: a new store loads cookies.json; a
\* store that is authenticated and whose user GetUserInfo returns ends the
\* command
LoginChecks ==
    /\ acPc = "start"
    /\ cookies' = LoadCookiesOn(NoCookies, cookieFile)
    /\ memBefore' = cookies'
    /\ \E info \in UserInfoAnswers :
         IF IsAuthenticated(cookies') /\ info = "ok"
         THEN /\ acOut' = <<"Already logged in">>
              /\ LoginReturns("nil")
         ELSE /\ acPc' = "method"
              /\ UNCHANGED <<acOut, acErr>>
    /\ UNCHANGED <<flags, stdin, fileBefore, cookieFile, loginVars, nonAccountVars>>

\* --browser: loginWithBrowser prints what to do, reads a line and returns
\* an error whatever was typed
LoginWithBrowser ==
    /\ acPc = "method"
    /\ flags.browser
    /\ LoginReturns("browser login failed")
    /\ UNCHANGED <<flags, stdin, acOut, fileBefore, memBefore, cookies, cookieFile,
                   loginVars, nonAccountVars>>

\* fmt.Errorf("failed to load cookies from file: %v", err)
FailedToLoad(err) ==
    IF err = "cookie file does not exist"
    THEN "failed to load cookies from file: cookie file does not exist"
    ELSE "failed to load cookies from file: no valid cookies found in file"

\* --cookie-file: loadCookiesFromFile, then SaveCookies
LoginImports ==
    /\ acPc = "method"
    /\ ~flags.browser /\ flags.cookieFile # ""
    /\ LET r == loadCookiesFromFile(cookies, importFile)
       IN  /\ cookies' = r.cookies
           /\ IF r.err # "nil"
              THEN /\ LoginReturns(FailedToLoad(r.err))
                   /\ cookieFile' = cookieFile
              ELSE /\ cookieFile' = CookieFileOf(cookies')
                   /\ acPc' = "verify"
                   /\ acErr' = acErr
    /\ UNCHANGED <<flags, stdin, acOut, fileBefore, memBefore, loginVars,
                   nonAccountVars>>

\* no flag: LoginWithQRCode up to its loop; GenerateQRCode may fail
LoginGeneratesQRCode ==
    /\ acPc = "method"
    /\ ~flags.browser /\ flags.cookieFile = ""
    /\ \E generated \in BOOLEAN :
         IF generated
         THEN /\ acPc' = "polling"
              /\ UNCHANGED <<acErr, qrErr>>
         ELSE /\ qrErr' = [kind |-> "failed to generate QR code"]
              /\ LoginReturns("QR code login failed")
    /\ UNCHANGED <<flags, stdin, acOut, fileBefore, memBefore, cookies, cookieFile,
                   importLines, importFile, polls, lastPoll, nonAccountVars>>

\* LoginWithQRCode returns err to runLogin
QRCodeFails(err) ==
    /\ qrErr' = err
    /\ LoginReturns("QR code login failed")
    /\ UNCHANGED <<cookies, cookieFile>>

\* one turn of the poll loop: CheckQRCodeStatus and the switch on its answer
LoginPolls(a) ==
    /\ acPc = "polling"
    /\ polls < MaxPolls
    /\ polls' = polls + 1
    /\ lastPoll' = a
    /\ IF a.kind = "failed"
       THEN QRCodeFails([kind |-> "failed to check QR code status"])
       ELSE CASE pollCase(a.code) = "success" ->
                   IF ~a.url.parses
                   THEN QRCodeFails([kind |-> "failed to parse cookies"])
                   ELSE /\ cookies' = parseCookiesFromURL(cookies, a.url.params, cookieNames)
                        /\ cookieFile' = CookieFileOf(cookies')
                        /\ qrErr' = [kind |-> "nil"]
                        /\ acPc' = "verify"
                        /\ acErr' = acErr
              [] pollCase(a.code) = "continue" ->
                   UNCHANGED <<acPc, acErr, qrErr, cookies, cookieFile>>
              [] pollCase(a.code) = "expired" ->
                   QRCodeFails([kind |-> "expired"])
              [] OTHER ->
                   QRCodeFails([kind |-> "login failed", message |-> a.message])
    /\ UNCHANGED <<flags, stdin, acOut, fileBefore, memBefore, importLines,
                   importFile, nonAccountVars>>

\* runLogin's verification: GetUserInfo with the cookies just obtained
LoginVerifies ==
    /\ acPc = "verify"
    /\ \E info \in UserInfoAnswers :
         IF info = "ok"
         THEN /\ acOut' = <<"Login successful!">>
              /\ LoginReturns("nil")
         ELSE /\ acOut' = acOut
              /\ LoginReturns("login verification failed")
    /\ UNCHANGED <<flags, stdin, fileBefore, memBefore, cookies, cookieFile,
                   loginVars, nonAccountVars>>

LoginNext ==
    \/ LoginChecks
    \/ LoginWithBrowser
    \/ LoginImports
    \/ LoginGeneratesQRCode
    \/ \E a \in PollAnswers : LoginPolls(a)
    \/ LoginVerifies

SpecLogin == LoginInit /\ [][LoginNext]_allVars

-----------------------------------------------------------------------------
(* The download command: the claims *)

BothMode == args.mode = "both"

Active(t) == t.st \in {"spawned", "requesting"}

\* something of position k has begun
Begun(k) == sub[k] # NewSub

\* everything of position k has ended: its outcome is known, no transfer runs
Ended(k) ==
    /\ sub[k].outcome # "pending"
    /\ ~Active(sub[k].video)
    /\ ~Active(sub[k].audio)

\* position k is the last one processed and nothing of a later one has begun
LastEnded(k) ==
    /\ pc \in {"resolve", "done"}
    /\ sub[k].outcome # "pending"
    /\ \A j \in DOMAIN sub : j > k => ~Begun(j)

FailedSubItemsSkipped ==
    (inLoop /\ pc = "done") =>
        \A k \in DOMAIN sub : sub[k].outcome \in {"ok", "failed"}

C4_OneSubItemAtATime ==
    /\ \A k, j \in DOMAIN sub : (k < j /\ Begun(j)) => Ended(k)
    /\ \A k, j \in DOMAIN sub :
         (k # j /\ (Active(sub[k].video) \/ Active(sub[k].audio))) =>
            (~Active(sub[j].video) /\ ~Active(sub[j].audio))

\* C4 witness: both transfers of the second sub-item are in progress after the
\* first sub-item was merged
C4_Witness ==
    /\ inLoop
    /\ Len(sub) >= 2
    /\ sub[1].merge = "runs"
    /\ sub[2].video.st = "requesting"
    /\ sub[2].audio.st = "requesting"

\* C5: for every selected sub-item, from fetchSingle or from fetchCollection,
\* stream resolution is requested with that sub-item's own content id.
C5_OwnContentId ==
    inLoop =>
      \A k \in DOMAIN sub :
        sub[k].outcome # "pending" =>
          /\ Len(sub[k].streamReq) = 1
          /\ sub[k].streamReq[1].cid = items[k].cid

-----------------------------------------------------------------------------
(* Stream resolution: the claims *)

\* the closed vocabulary of quality tiers
QualityTiers == {16, 32, 64, 80}

ResolveReturned == resolvePc = "done" /\ resolveOut.err = "none"

LegacyQueried == legacyResp # NoResp

ModernAccepted == modernResp.kind = "json" /\ modernResp.code = 0

\* the positions of dash.video whose quality id is in the vocabulary
TierPositions == {i \in 1..Len(modernResp.video) : modernResp.video[i].id \in QualityTiers}

\* the k-th such position, in source order
TierPosition(k) ==
    CHOOSE i \in TierPositions : Cardinality({j \in TierPositions : j < i}) = k - 1

\* C6: the legacy endpoint is queried if and only if the modern answer had
\* status 0 and gave zero variants; the result then returned has exactly one
\* variant per durl entry, in source order, each with the legacy container
\* format, an empty audio URL and the fixed codec strings.
C6_LegacyFallback ==
    /\ resolvePc # "modern" =>
         ((resolvePc = "legacy" \/ LegacyQueried)
            <=> (ModernAccepted /\ TierPositions = {}))
    /\ (ResolveReturned /\ LegacyQueried) =>
         /\ Len(resolveOut.streams) = Len(legacyResp.durl)
         /\ \A i \in 1..Len(legacyResp.durl) :
              /\ resolveOut.streams[i].VideoURL = legacyResp.durl[i].url
              /\ resolveOut.streams[i].Format = "flv"
              /\ resolveOut.streams[i].AudioURL = ""
              /\ resolveOut.streams[i].VideoCodecs = "avc1"
              /\ resolveOut.streams[i].AudioCodecs = "mp4a"

\* C6 witness: the fallback returned the two variants of a two-entry durl
C6_Witness ==
    /\ ResolveReturned /\ LegacyQueried
    /\ Len(legacyResp.durl) = 2
    /\ Len(resolveOut.streams) = 2
    /\ resolveOut.streams[1].VideoURL # resolveOut.streams[2].VideoURL

\* C7 (as claimed): the returned list holds at most one variant per quality
\* tier.
C7_OnePerTier ==
    ResolveReturned =>
        \A i, j \in 1..Len(resolveOut.streams) :
            i # j => resolveOut.streams[i].Quality # resolveOut.streams[j].Quality

\* the video URLs the source gives for tier q, in source order
SourceURLsOfTier(q) ==
    IF LegacyQueried
    THEN IF legacyResp.quality = q
         THEN [i \in 1..Len(legacyResp.durl) |-> legacyResp.durl[i].url]
         ELSE <<>>
    ELSE LET at == {i \in TierPositions : modernResp.video[i].id = q}
             nth(k) == CHOOSE i \in at : Cardinality({j \in at : j < i}) = k - 1
         IN  [k \in 1..Cardinality(at) |-> modernResp.video[nth(k)].baseUrl]

\* the video URLs of the returned variants of tier q, in order
ReturnedURLsOfTier(q) ==
    LET of == SelectSeq(resolveOut.streams, LAMBDA x : x.Quality = q)
    IN  [k \in 1..Len(of) |-> of[k].VideoURL]

\* C7 (amended): the list is not de-duplicated: for every tier it holds one
\* variant per source rendition of that tier (per durl entry on the legacy
\* path), in source order, so the first variant of a tier is the one built
\* from the first rendition of that tier.
C7_AllOfTierInSourceOrder ==
    ResolveReturned =>
        \A q \in ApiQualityIds :
            ReturnedURLsOfTier(q) = SourceURLsOfTier(q)

\* C7 witness: two variants of one tier, built from different renditions,
\* on the modern path
C7_Witness ==
    /\ ResolveReturned /\ ~LegacyQueried
    /\ \E i, j \in 1..Len(resolveOut.streams) :
         /\ i < j
         /\ resolveOut.streams[i].Quality = resolveOut.streams[j].Quality
         /\ resolveOut.streams[i].VideoURL # resolveOut.streams[j].VideoURL

\* C8: every returned variant, on the modern path and on the legacy fallback
\* path, has a quality tier in {16, 32, 64, 80}.
C8_ClosedVocabulary ==
    ResolveReturned =>
        \A i \in 1..Len(resolveOut.streams) :
            resolveOut.streams[i].Quality \in QualityTiers

\* C9: on the modern path the result is one variant for each video rendition
\* whose quality id is in the vocabulary, in source order, each carrying the
\* URL and codec of the first audio rendition (both empty when there is none).
C9_ModernVariants ==
    (ResolveReturned /\ ~LegacyQueried) =>
        /\ Len(resolveOut.streams) = Cardinality(TierPositions)
        /\ \A k \in 1..Len(resolveOut.streams) :
             LET v == modernResp.video[TierPosition(k)]
                 x == resolveOut.streams[k]
             IN  /\ x.Quality = v.id
                 /\ x.VideoURL = v.baseUrl
                 /\ x.VideoCodecs = v.codecs
                 /\ IF modernResp.audio = <<>>
                    THEN x.AudioURL = "" /\ x.AudioCodecs = ""
                    ELSE /\ x.AudioURL = modernResp.audio[1].baseUrl
                         /\ x.AudioCodecs = modernResp.audio[1].codecs

\* C9 witness: video ids 80, 64, 32 and two audio renditions gave three variants
C9_Witness ==
    /\ ResolveReturned /\ ~LegacyQueried
    /\ Len(modernResp.video) = 3
    /\ modernResp.video[1].id = 80
    /\ modernResp.video[2].id = 64
    /\ modernResp.video[3].id = 32
    /\ Len(modernResp.audio) = 2
    /\ Len(resolveOut.streams) = 3

\* C10: a non-zero status code at either step fails the call with an API
\* error and no variants; on the modern answer without the legacy endpoint
\* being queried.
C10_ApiErrorFails ==
    /\ (resolvePc # "modern" /\ modernResp.kind = "json" /\ modernResp.code # 0) =>
         /\ resolvePc = "done"
         /\ resolveOut = [err |-> "api", streams |-> <<>>]
         /\ ~LegacyQueried
    /\ (legacyResp.kind = "json" /\ legacyResp.code # 0) =>
         /\ resolvePc = "done"
         /\ resolveOut = [err |-> "api", streams |-> <<>>]

\* C10 witness: the legacy answer was a rejection that carried durl entries
C10_Witness ==
    /\ resolvePc = "done"
    /\ legacyResp.kind = "json"
    /\ legacyResp.code # 0
    /\ Len(legacyResp.durl) > 0
    /\ resolveOut.err = "api"

-----------------------------------------------------------------------------
(* Stream selection *)

\* the two parser functions have returned
SelectCalled == selPc \in {"download", "create", "done"}

\* DownloadVideo has made its selection
SelectDecided == selPc \in {"create", "done"}

SelectTiers == {selStreams[i].Quality : i \in 1..Len(selStreams)}

\* the position of the first stream of tier q
FirstPositionOf(q) ==
    CHOOSE i \in 1..Len(selStreams) :
        /\ selStreams[i].Quality = q
        /\ \A j \in 1..(i - 1) : selStreams[j].Quality # q

MaxTier == CHOOSE q \in SelectTiers : \A r \in SelectTiers : r <= q

\* the first stream of maximal tier
FirstMaximal == selStreams[FirstPositionOf(MaxTier)]

LabelTiers == [l \in {"best", "1080p", "720p", "480p", "360p"} |->
                 CASE l \in {"best", "1080p"} -> 80
                   [] l = "720p" -> 64
                   [] l = "480p" -> 32
                   [] l = "360p" -> 16]

\* C11: for every stream list that is not empty, GetStreamByQuality with the
\* label "best" returns the stream GetBestQualityStream returns.
C11_BestLabelIsBest ==
    (SelectCalled /\ selLabel = "best" /\ Len(selStreams) > 0)
        => selByQuality = selBest

\* "best" was asked of a list whose best stream is not its first
C11_Witness ==
    /\ SelectCalled
    /\ selLabel = "best"
    /\ Len(selStreams) >= 2
    /\ selBest # selStreams[1]
    /\ selByQuality = selBest

\* C12: for every stream list that is not empty and every label,
\* GetStreamByQuality returns a member of the list: the first stream of the
\* label's tier when the label is known and the tier is in the list, the first
\* stream of maximal tier otherwise; GetBestQualityStream returns the latter.
C12_ByLabelNeverFails ==
    (SelectCalled /\ Len(selStreams) > 0) =>
        /\ \E i \in 1..Len(selStreams) : selByQuality = selStreams[i]
        /\ selBest = FirstMaximal
        /\ IF selLabel \in DOMAIN LabelTiers /\ LabelTiers[selLabel] \in SelectTiers
           THEN selByQuality = selStreams[FirstPositionOf(LabelTiers[selLabel])]
           ELSE selByQuality = FirstMaximal

\* the tier of a known label is absent from a list that has two streams of
\* maximal tier
C12_Witness ==
    /\ SelectCalled
    /\ selLabel = "720p"
    /\ 64 \notin SelectTiers
    /\ \E i, j \in 1..Len(selStreams) :
          i < j /\ selStreams[i].Quality = MaxTier /\ selStreams[j].Quality = MaxTier
                /\ selStreams[i] # selStreams[j] /\ selByQuality = selStreams[i]

\* C13: for every stream list and every label, known or not, DownloadVideo
\* selects the stream GetStreamByQuality returns; for the empty list it fails
\* with "no suitable stream found" and no file has been created.
C13_SelectingIsByQuality ==
    SelectDecided =>
        /\ selDownload.stream = selByQuality
        /\ (Len(selStreams) = 0) <=> (selDownload.err = "no_stream")
        /\ (Len(selStreams) > 0) <=> (selDownload.err = "none")
        /\ selDownload.err = "no_stream" => selFiles = EmptyDir

\* a label that is in neither map was given with a list whose best stream is
\* not its first, and the transfers have created their files
C13_Witness ==
    /\ selPc = "done"
    /\ selLabel = "4k"
    /\ Len(selStreams) >= 2
    /\ selDownload.err = "none"
    /\ selDownload.stream # selStreams[1]
    /\ selFiles # EmptyDir

\* the empty list was given and the download failed
C13_EmptyListFails ==
    /\ selPc = "done"
    /\ selStreams = <<>>
    /\ selDownload.err = "no_stream"

-----------------------------------------------------------------------------
(* Item metadata *)

\* ParseURL has returned the VideoInfo of a status-0 view answer
MetaFetched == metaPc = "done" /\ metaOut.err = "none"

SourcePages == metaView.data.pages

\* the platform's numbering: the page at position k has number k
NumberedFromOne == \A k \in 1..Len(SourcePages) : SourcePages[k].Page = k

\* C14: for every status-0 view answer with N > 1 pages numbered 1..N,
\* ParseURL returns a playlist of exactly N episodes, the episode at position
\* k made from page k and with index k; with N <= 1 it returns a video.
C14_UpgradeToCollection ==
    (MetaFetched /\ NumberedFromOne) =>
        IF Len(SourcePages) > 1
        THEN /\ metaOut.info.Type = "playlist"
             /\ Len(metaOut.info.Episodes) = Len(SourcePages)
             /\ \A k \in 1..Len(SourcePages) :
                   /\ metaOut.info.Episodes[k].Index = k
                   /\ metaOut.info.Episodes[k].CID = SourcePages[k].CID
        ELSE /\ metaOut.info.Type = "video"
             /\ metaOut.info.Episodes = <<>>

\* an answer with the most pages was upgraded
C14_Witness ==
    /\ MetaFetched
    /\ NumberedFromOne
    /\ Len(SourcePages) = MaxParts
    /\ metaOut.info.Type = "playlist"
    /\ Len(metaOut.info.Episodes) = MaxParts

\* an answer with one page stayed a video
C14_SingleWitness ==
    /\ MetaFetched
    /\ Len(SourcePages) = 1
    /\ metaOut.info.Type = "video"

\* "<parent title> - P<page number>"
SynthesizedTitle(parent, number) == parent \o <<" ", "-", " ", "P">> \o Itoa(number)

\* C15: the title of every episode ParseURL makes of a page is the page's
\* part title when that is not empty, and "<parent title> - P<page number>"
\* when it is empty.
C15_SubItemTitles ==
    MetaFetched =>
        \A k \in 1..Len(metaOut.info.Episodes) :
            metaOut.info.Episodes[k].Title =
                IF SourcePages[k].Part # <<>> THEN SourcePages[k].Part
                ELSE SynthesizedTitle(metaView.data.title, SourcePages[k].Page)

\* one answer gave an episode the part title and another a synthesized title
C15_Witness ==
    /\ MetaFetched
    /\ \E j, k \in 1..Len(metaOut.info.Episodes) :
          /\ SourcePages[j].Part = <<"a">>
          /\ metaOut.info.Episodes[j].Title = <<"a">>
          /\ SourcePages[k].Part = <<>>
          /\ SourcePages[k].Page = 2
          /\ metaOut.info.Episodes[k].Title = <<"t", " ", "-", " ", "P", "2">>

-----------------------------------------------------------------------------
(* Page selection *)

\* numbers and ranges that do not descend
IsListOfPages ==
    \A i \in 1..Len(pgExpr) :
        /\ pgExpr[i].kind \in {"num", "range"}
        /\ pgExpr[i].a <= pgExpr[i].b

\* the indices an expression of numbers and ranges lists, in its order
RECURSIVE ListedBy(_)
ListedBy(expr) ==
    IF expr = <<>> THEN <<>>
    ELSE [k \in 1..(Head(expr).b - Head(expr).a + 1) |-> Head(expr).a + k - 1]
            \o ListedBy(Tail(expr))

\* the listed indices the collection has a sub-item for
ListedAndPresent ==
    SelectSeq(ListedBy(pgExpr), LAMBDA i : i \in 1..Len(pgEpisodes))

\* C16: an expression of comma-separated numbers and ranges selects the
\* sub-items at the indices it lists, in the order of the expression; "all"
\* selects every sub-item in source order.
C16_PageSelection ==
    pgPc = "done" =>
        /\ pgExpr[1].kind = "all" =>
              pgOut = [ok |-> TRUE, episodes |-> pgEpisodes]
        /\ IsListOfPages =>
              /\ pgOut.ok
              /\ Len(pgOut.episodes) = Len(ListedAndPresent)
              /\ \A k \in 1..Len(ListedAndPresent) :
                    /\ pgOut.episodes[k] = pgEpisodes[ListedAndPresent[k]]
                    /\ pgOut.episodes[k].Index = ListedAndPresent[k]

\* "1-2,4" was given for a collection of 5 sub-items
C16_Witness ==
    /\ pgPc = "done"
    /\ pgText = <<"1", "-", "2", ",", "4">>
    /\ Len(pgEpisodes) = 5
    /\ pgOut.ok
    /\ [k \in 1..Len(pgOut.episodes) |-> pgOut.episodes[k].Index] = <<1, 2, 4>>

\* "all" was given for a collection of 5 sub-items
C16_AllWitness ==
    /\ pgPc = "done"
    /\ pgText = <<"a", "l", "l">>
    /\ Len(pgOut.episodes) = 5

-----------------------------------------------------------------------------
(* The credential store *)

\* the named credential is present with a value that is not empty
PresentAndNotEmpty(name) == name \in DOMAIN cookies /\ cookies[name] # <<>>

\* C17: after any sequence of the store's operations, IsAuthenticated returns
\* true if and only if SESSDATA and bili_jct are both present with values
\* that are not empty.
C17_AuthenticatedIffBoth ==
    authResult \in {"yes", "no"} =>
        (authResult = "yes" <=> (PresentAndNotEmpty(SESSDATA) /\ PresentAndNotEmpty(bili_jct)))

\* IsAuthenticated returned false for a store that holds the session cookie
\* and an empty bili_jct
C17_Witness ==
    /\ authResult = "no"
    /\ PresentAndNotEmpty(SESSDATA)
    /\ bili_jct \in DOMAIN cookies
    /\ cookies[bili_jct] = <<>>

\* IsAuthenticated returned true after a load into a fresh store
C17_LoadedWitness ==
    /\ authResult = "yes"
    /\ roundTrip = "loaded"

\* C18: SaveCookies followed by LoadCookies, on a fresh store or on the store
\* that saved, leaves the map that was saved.
C18_RoundTrip == roundTrip = "loaded" => cookies = savedFrom

\* the characters json.Marshal writes so that json.Unmarshal reads them back
ValidText(str) == \A i \in 1..Len(str) : str[i] # InvalidByte

\* SaveCookies followed by LoadCookies leaves the map that was saved when
\* every name and value of it is valid UTF-8
C18_RoundTripOfValidText ==
    (roundTrip = "loaded" /\ \A n \in DOMAIN savedFrom : ValidText(n) /\ ValidText(savedFrom[n]))
        => cookies = savedFrom

\* a map with a value that JSON escapes was saved and loaded
C18_ValidTextWitness ==
    /\ roundTrip = "loaded"
    /\ SESSDATA \in DOMAIN savedFrom
    /\ savedFrom[SESSDATA] = <<"<", "\"">>
    /\ cookies = savedFrom

-----------------------------------------------------------------------------
(* The cookie string *)

\* the map the segments mean for a store: every pair sets its name to its
\* value in the order of the string, every other segment sets nothing
RECURSIVE MeantBy(_, _)
MeantBy(store, segs) ==
    IF segs = <<>> THEN store
    ELSE MeantBy(IF Head(segs).kind = "pair"
                 THEN [n \in DOMAIN store \cup {Head(segs).name} |->
                          IF n = Head(segs).name THEN Head(segs).value ELSE store[n]]
                 ELSE store,
                 Tail(segs))

\* the names the pairs of the string set
NamesSet == {csSegments[i].name : i \in {k \in 1..Len(csSegments) : csSegments[k].kind = "pair"}}

\* C19: SetCookiesFromString returns no error; it sets name to value for
\* every ";"-separated segment with "=", spaces trimmed around both, skips
\* every segment without "=", and leaves every other cookie as it was.
C19_DelimitedString ==
    csPc = "done" =>
        /\ csOut.err = "nil"
        /\ csOut.cookies = MeantBy(csBefore, csSegments)
        /\ DOMAIN csOut.cookies = DOMAIN csBefore \cup NamesSet
        /\ \A n \in DOMAIN csBefore \ NamesSet : csOut.cookies[n] = csBefore[n]

\* "a=1; b=2 ; c" was set on an empty store
C19_Witness ==
    /\ csPc = "done"
    /\ csText = <<"a", "=", "1", ";", " ", "b", "=", "2", " ", ";", " ", "c">>
    /\ csBefore = NoCookies
    /\ DOMAIN csOut.cookies = {<<"a">>, <<"b">>}
    /\ csOut.cookies[<<"a">>] = <<"1">>
    /\ csOut.cookies[<<"b">>] = <<"2">>

-----------------------------------------------------------------------------
(* The request builder *)

\* "name=value" of the names of a store in the given order, "; " between them
RECURSIVE PairsJoined(_, _)
PairsJoined(store, names) ==
    IF Len(names) = 1 THEN names[1] \o <<"=">> \o store[names[1]]
    ELSE names[1] \o <<"=">> \o store[names[1]] \o <<";", " ">>
            \o PairsJoined(store, Tail(names))

\* the serializations of a store that is not empty: one for every order of
\* its names
Serializations(store) ==
    { PairsJoined(store, o) :
        o \in { p \in [1..Cardinality(DOMAIN store) -> DOMAIN store] :
                  \A i, j \in DOMAIN p : i # j => p[i] # p[j] } }

\* every request built so far carries the store of the moment it was built
BuiltFromStore ==
    \A i \in 1..Len(requests) :
        IF DOMAIN requests[i].from = {}
        THEN ~requests[i].cookie.set
        ELSE /\ requests[i].cookie.set
             /\ requests[i].cookie.value \in Serializations(requests[i].from)

\* the last request was built from the store as it is, as long as no
\* operation has changed the store since
LastIsCurrent ==
    (Len(requests)' = Len(requests) + 1) => requests'[Len(requests')].from = cookies

\* no operation changes a request that has been built
BuiltStaysBuilt == \A i \in 1..Len(requests) : requests'[i] = requests[i]

\* C20: every request CreateAuthenticatedRequest builds carries a Cookie
\* header that serializes the store as it is at the build, and none when the
\* store is empty; a later SetCookie or ClearCookies shows in the next request
\* built and changes no request already built.
C20_CookiesReadAtBuild ==
    /\ []BuiltFromStore
    /\ [][LastIsCurrent /\ BuiltStaysBuilt]_allVars

\* a cookie was set between two builds: the first request carries the old
\* value and the second the new one
C20_Witness ==
    /\ Len(requests) = 2
    /\ requests[1].cookie = [set |-> TRUE, value |-> <<"S", "E", "S", "S", "D", "A", "T", "A", "=", "1">>]
    /\ requests[2].cookie = [set |-> TRUE, value |-> <<"S", "E", "S", "S", "D", "A", "T", "A", "=", "2">>]

\* the store was cleared between two builds: the second request has no
\* Cookie header
C20_ClearedWitness ==
    /\ Len(requests) = 2
    /\ requests[1].cookie.set
    /\ ~requests[2].cookie.set

-----------------------------------------------------------------------------
(* The download command and the credential store: the claims *)

\* cookies.json holds a value that is not empty under the name
StoredNotEmpty(name) ==
    /\ cookieFile.exists
    /\ \E i \in DOMAIN cookieFile.members :
         /\ cookieFile.members[i].key = name
         /\ cookieFile.members[i].value # <<>>

StoredAuthenticated == StoredNotEmpty(SESSDATA) /\ StoredNotEmpty(bili_jct)

\* C21: when the store the download command loaded is not authenticated, the
\* command fails with "authentication required" after telling the user to
\* log in, and it sends no metadata, playback or media request and writes no
\* file.
C21_UnauthenticatedRefused ==
    (pc # "start" /\ ~StoredAuthenticated) =>
        /\ pc = "done"
        /\ cmdErr = "authentication required"
        /\ stdout = <<NotAuthenticatedMessage>>
        /\ metaRequests = <<>>
        /\ sub = <<>>
        /\ files = EmptyDir

\* C21 witness: cookies.json holds the session cookie only, the URL is one
\* whose metadata could be fetched, and the command has returned
C21_Witness ==
    /\ pc = "done"
    /\ StoredNotEmpty(SESSDATA) /\ ~StoredNotEmpty(bili_jct)
    /\ args.url.hasId
    /\ metaAnswer.kind = "json" /\ metaAnswer.code = 0
    /\ cmdErr = "authentication required"

\* C21 witness of the other side: an authenticated store is let past the check
C21_AuthenticatedWitness ==
    /\ StoredAuthenticated
    /\ metaRequests # <<>>
    /\ files # EmptyDir

\* logout has returned nil
LogoutSucceeded == acPc = "done" /\ acErr = "nil"

\* the user was asked and did not confirm
LogoutDeclined == acOut = <<"Logout cancelled.">>

\* logout left what it found
LogoutLeftAll == cookies = memBefore /\ cookieFile = fileBefore

\* the credentials are cleared: the map is empty, nothing is stored, and a
\* new store that loads is empty and not authenticated
LogoutCleared ==
    /\ cookies = NoCookies
    /\ ~cookieFile.exists
    /\ LoadCookiesOn(NoCookies, cookieFile) = NoCookies
    /\ ~IsAuthenticated(LoadCookiesOn(NoCookies, cookieFile))

\* C22 (as claimed): after logout returned success and the user did not
\* decline, the credentials are cleared in memory and in durable storage; a
\* declined confirmation leaves both as they were.
C22_LogoutClears ==
    LogoutSucceeded => IF LogoutDeclined THEN LogoutLeftAll ELSE LogoutCleared

\* what holds instead: the credentials of an authenticated store are
\* cleared
C22_AuthenticatedLogoutClears ==
    (LogoutSucceeded /\ IsAuthenticated(memBefore)) =>
        IF LogoutDeclined THEN LogoutLeftAll ELSE LogoutCleared

\* an authenticated store was cleared after the user confirmed
C22_ClearedWitness ==
    /\ LogoutSucceeded /\ IsAuthenticated(memBefore)
    /\ ~flags.force /\ stdin = "yes"
    /\ fileBefore.exists /\ LogoutCleared

\* the user declined
C22_DeclinedWitness ==
    LogoutSucceeded /\ LogoutDeclined /\ stdin = "YES" /\ cookieFile.exists

-----------------------------------------------------------------------------
(* The login command: the claims *)

\* the answer says the code was not scanned, or scanned and not confirmed
Pending(a) == a.kind = "json" /\ a.code \in {86101, 86090}

\* the store holds the parameters of the redirect URL that are not empty,
\* and what it held before under the other names
TakenFromQuery(before, after, params) ==
    \A name \in DOMAIN before \cup DOMAIN after \cup DOMAIN params :
        GetCookie(after, name) =
            IF GetCookie(params, name) # <<>> THEN params[name]
            ELSE GetCookie(before, name)

\* C23: the poll loop goes on, whatever the number of polls made, while the
\* answer's status is 86101 or 86090; it ends only in a poll: on status 0
\* with the cookies taken from the query parameters of the redirect URL, on
\* 86038 as expired, on any other status with the server's message, and on a
\* poll request that failed.
C23_PollLoop ==
    [][ /\ (acPc = "polling" /\ polls' = polls + 1) =>
             LET a == lastPoll'
             IN  /\ Pending(a) =>
                      /\ acPc' = "polling"
                      /\ UNCHANGED <<qrErr, acErr, cookies, cookieFile>>
                 /\ ~Pending(a) => acPc' # "polling"
                 /\ (a.kind = "json" /\ a.code = 0 /\ a.url.parses) =>
                      /\ qrErr' = [kind |-> "nil"]
                      /\ TakenFromQuery(cookies, cookies', a.url.params)
                 /\ (a.kind = "json" /\ a.code = 86038) =>
                      qrErr' = [kind |-> "expired"]
                 /\ (a.kind = "json" /\ a.code \notin {0, 86101, 86090, 86038}) =>
                      qrErr' = [kind |-> "login failed", message |-> a.message]
                 /\ a.kind = "failed" =>
                      qrErr' = [kind |-> "failed to check QR code status"]
                 /\ (~Pending(a) /\ qrErr' # [kind |-> "nil"]) =>
                      acPc' = "done" /\ acErr' = "QR code login failed"
        /\ (acPc = "polling" /\ acPc' # "polling") => polls' = polls + 1
      ]_allVars

\* C23 witness: after MaxPolls polls, the last answered "scanned, not
\* confirmed", the loop has not ended
C23_Witness ==
    /\ acPc = "polling"
    /\ polls = MaxPolls
    /\ lastPoll.kind = "json" /\ lastPoll.code = 86090
    /\ qrErr = [kind |-> "running"]

\* C23 witness of the end: the third poll was answered status 0
C23_SuccessWitness ==
    /\ polls = 3
    /\ lastPoll.kind = "json" /\ lastPoll.code = 0
    /\ qrErr = [kind |-> "nil"]
    /\ IsAuthenticated(cookies)

\* the names that are imported
AllowList == {SESSDATA, bili_jct, DedeUserID, DedeUserID__ckMd5, sid, buvid3, buvid4}

\* the line, without the blanks around it, has two tab-separated fields or
\* more, and its first is a name of the list
Matched(l) ==
    /\ l.kind = "cookie"
    /\ l.value # <<>> \/ l.third
    /\ l.name \in AllowList

\* the store after the import of the lines: every matched line sets its name
\* to its value, in the order of the file
RECURSIVE ImportedFrom(_, _)
ImportedFrom(store, lines) ==
    IF lines = <<>> THEN store
    ELSE ImportedFrom(IF Matched(Head(lines))
                      THEN WithCookie(store, Head(lines).name, Head(lines).value)
                      ELSE store,
                      Tail(lines))

\* login has imported the cookie file that is there
Imported ==
    /\ ~flags.browser /\ flags.cookieFile # ""
    /\ importFile.exists
    /\ acPc \in {"verify", "done"}
    /\ acOut # <<"Already logged in">>

\* C24: the import of a cookie file ignores blank lines and lines that begin
\* with '#', takes the first two tab-separated fields of every other line as
\* name and value, and stores the names of the allow-list only; when no line
\* matched, it fails with "no valid cookies found in file", the store is as
\* it was and nothing is saved.
C24_CookieFileImport ==
    Imported =>
        IF \E i \in DOMAIN importLines : Matched(importLines[i])
        THEN /\ cookies = ImportedFrom(memBefore, importLines)
             /\ cookieFile = CookieFileOf(cookies)
             /\ acErr \in {"running", "nil", "login verification failed"}
        ELSE /\ acPc = "done"
             /\ acErr = "failed to load cookies from file: no valid cookies found in file"
             /\ cookies = memBefore
             /\ cookieFile = fileBefore

\* C24 witness: a file of a comment that looks like a cookie and a line
\* whose name is not in the list was refused, with a cookie in the store
C24_Witness ==
    /\ Imported
    /\ Len(importLines) = 2
    /\ importLines[1].kind = "comment"
    /\ importLines[2] = CookieLine(sessdata, <<"1">>, FALSE, FALSE)
    /\ memBefore # NoCookies
    /\ acErr = "failed to load cookies from file: no valid cookies found in file"

\* C24 witness of an import: a line of three fields and a line with blanks
\* around its fields were stored
C24_StoredWitness ==
    /\ Imported
    /\ importLines = <<CookieLine(SESSDATA, <<"2">>, TRUE, FALSE),
                       CookieLine(bili_jct, <<"2">>, FALSE, TRUE)>>
    /\ IsAuthenticated(cookies)
    /\ acPc = "verify"

\* login has returned an error
LoginFailed == acPc = "done" /\ acErr \notin {"running", "nil"}

\* C29 (as claimed): when the login command returns an error, cookies.json
\* is what it was before the command ran.
C29_FailedLoginKeepsFile ==
    LoginFailed => cookieFile = fileBefore

\* what holds instead: an error other than the failed verification leaves
\* cookies.json as it was
C29_FailedBeforeVerificationKeepsFile ==
    (LoginFailed /\ acErr # "login verification failed") => cookieFile = fileBefore

\* the verification failed after an import into an empty store
C29_VerificationWitness ==
    /\ LoginFailed /\ acErr = "login verification failed"
    /\ ~fileBefore.exists
    /\ cookieFile.exists

\* LoginWithQRCode has returned nil
QRCodeSucceeded == qrErr = [kind |-> "nil"]

\* C30 (as claimed): when LoginWithQRCode returns nil, the store is
\* authenticated and cookies.json holds its cookies, so a new store that
\* loads the file is authenticated too.
C30_QRCodeLoginAuthenticates ==
    QRCodeSucceeded =>
        /\ IsAuthenticated(cookies)
        /\ cookieFile = CookieFileOf(cookies)
        /\ IsAuthenticated(LoadCookiesOn(NoCookies, cookieFile))

\* what holds instead: cookies.json holds the store's cookies, and the store
\* is authenticated when the store before and the redirect URL together give
\* both essential cookies
C30_QRCodeLoginSaves ==
    QRCodeSucceeded =>
        /\ cookieFile = CookieFileOf(cookies)
        /\ TakenFromQuery(memBefore, cookies, lastPoll.url.params)
        /\ IsAuthenticated(cookies) <=>
             \A i \in 1..Len(essentialCookies) :
                \/ GetCookie(lastPoll.url.params, essentialCookies[i]) # <<>>
                \/ GetCookie(memBefore, essentialCookies[i]) # <<>>

\* LoginWithQRCode returned nil for a redirect URL without parameters
C30_EmptyWitness ==
    /\ QRCodeSucceeded
    /\ lastPoll.url.params = NoCookies
    /\ cookies = NoCookies
    /\ cookieFile.exists

-----------------------------------------------------------------------------
(* generateFilename: the claims *)

\* the title with every hostile character replaced by '_'
Sanitized(chars) ==
    [i \in 1..Len(chars) |->
        IF \E k \in 1..Len(HostileChars) : HostileChars[k] = chars[i]
        THEN "_" ELSE chars[i]]

\* at most the first 100 characters
FirstCharacters(chars) ==
    IF Len(chars) > 100 THEN SubSeq(chars, 1, 100) ELSE chars

\* the suffix of the tier
SuffixOfTier(q) ==
    CASE q = 80 -> <<"_", "1", "0", "8", "0", "p">>
      [] q = 64 -> <<"_", "7", "2", "0", "p">>
      [] q = 32 -> <<"_", "4", "8", "0", "p">>
      [] q = 16 -> <<"_", "3", "6", "0", "p">>
      [] OTHER  -> <<>>

\* the name the claim describes
ClaimedFilename ==
    BytesOf(FirstCharacters(Sanitized(fnTitle)))
    \o SuffixOfTier(fnQuality) \o <<".">> \o fnFormat

NoHostileCharacter(name) ==
    \A i \in 1..Len(name), k \in 1..Len(HostileChars) : name[i] # HostileChars[k]

\* C25 (as claimed): the output filename is the title with every hostile
\* character replaced by '_', cut to at most 100 characters, followed by the
\* suffix of the tier, a dot and the format; no hostile character is in it.
C25_Filename ==
    fnPc = "done" => (fnOut = ClaimedFilename /\ NoHostileCharacter(fnOut))

\* what holds instead: the claim for titles of one-byte characters, and no
\* hostile character in any name
C25_FilenameOfOneByteTitles ==
    fnPc = "done" =>
        /\ NoHostileCharacter(fnOut)
        /\ (\A i \in 1..Len(fnTitle) : fnTitle[i] # WideChar) => fnOut = ClaimedFilename

\* a title of 150 characters with '/', ':' and '?' was named
C25_LongTitleWitness ==
    /\ fnPc = "done"
    /\ Len(fnTitle) = 150
    /\ fnTitle[2] = "/" /\ fnTitle[4] = ":" /\ fnTitle[6] = "?"
    /\ fnQuality = 80
    /\ Len(fnOut) = 100 + 6 + 1 + 3

\* a title of 34 wide characters was cut inside its last character
C25_WideTitleWitness ==
    /\ fnPc = "done"
    /\ fnTitle = Repeat(WideChar, 34)
    /\ fnOut[100] = WideBytes[1]
    /\ fnOut[101] = "_"

-----------------------------------------------------------------------------
(* ProgressReader.Read: the claims *)

\* a call of Read returns in this step
ReadReturns == Len(prReturned') = Len(prReturned) + 1

\* C26: progress reporting is send-or-discard.  Read never waits for the
\* consumer: whatever the consumer does, every call returns and the copy
\* ends; a call made while no send can proceed leaves the channel and the
\* consumer as they are, a call made while one can proceed passes its
\* event; and Read returns the count and the error of the underlying Read.
C26_SendOrDiscard ==
    /\ <>(prPc = "done")
    /\ [][ /\ prReturned' \o prReader' = prReturned \o prReader
           /\ (prPc = "copy" /\ prPc' = "done") =>
                 prReturned'[Len(prReturned')].err # "nil"
           /\ (ReadReturns /\ ~SendReady(prProgress)) =>
                 (prProgress' = prProgress /\ prReceived' = prReceived)
           /\ (ReadReturns /\ SendReady(prProgress)) =>
                 Len(prProgress'.buf) + Len(prReceived')
                    = Len(prProgress.buf) + Len(prReceived) + 1
         ]_allVars

\* C26 witness: three calls of Read have returned and the copy has ended
\* with nobody ever receiving from the unbuffered channel
C26_Witness ==
    /\ prPc = "done"
    /\ prProgress.kind = "chan" /\ prProgress.cap = 0
    /\ ~prProgress.receiving
    /\ Len(prReturned) = 3
    /\ prReceived = <<>>

\* C26 witness of a slow consumer: of three events the buffer of one kept
\* the first, the consumer has received nothing
C26_FullBufferWitness ==
    /\ prPc = "done"
    /\ prProgress.cap = 1 /\ Len(prProgress.buf) = 1
    /\ prProgress.buf[1].Downloaded = prReturned[1].n
    /\ Len(prReturned) = 3
    /\ prReceived = <<>>

-----------------------------------------------------------------------------
(* The download command: the claims on the output of sub-items *)

\* the stream selected for the sub-item at k has no audio of its own, and
\* both of its transfers were started
MuxedInBothMode(k) ==
    /\ args.mode = "both"
    /\ sub[k].video.st # "unused"
    /\ sub[k].stream.AudioURL = ""

\* C27 (as claimed): in the default mode a selected stream whose audio URL is
\* empty is not failed for the lack of an audio of its own: no sub-item whose
\* video was transferred ends as failed because the transfer of the empty
\* audio URL failed.
C27_MuxedNotFailedForAudio ==
    \A k \in DOMAIN sub :
        ~ /\ MuxedInBothMode(k)
          /\ sub[k].video.st = "ok"
          /\ sub[k].audio.st = "failed"
          /\ sub[k].outcome = "failed"

\* what holds instead: in the default mode such a sub-item is never
\* downloaded, and the step that writes its final output file is never taken
C27_MuxedNeverDone ==
    \A k \in DOMAIN sub :
        MuxedInBothMode(k) =>
            /\ sub[k].outcome # "ok"
            /\ sub[k].audio.st # "ok"
            /\ sub[k].merge = "none"

\* the video of a muxed stream was transferred and the sub-item failed
C27_FailedWitness ==
    \E k \in DOMAIN sub :
        /\ MuxedInBothMode(k)
        /\ sub[k].video.st = "ok"
        /\ sub[k].outcome = "failed" /\ sub[k].err = "audio"

\* the sub-items at k and j are two sub-items of the collection, both named
TwoNamedSubItems(k, j) ==
    /\ inLoop
    /\ k < j
    /\ items[k].pageNum # items[j].pageNum
    /\ sub[k].outputPath # <<>>
    /\ sub[j].outputPath # <<>>

\* C28 (as claimed): within one collection download two different selected
\* sub-items are never given the same final output path, so the file of an
\* earlier one is not written again by a later one.
C28_DistinctOutputPaths ==
    \A k, j \in DOMAIN sub :
        TwoNamedSubItems(k, j) => sub[k].outputPath # sub[j].outputPath

\* what holds instead, for titles that are short and without hostile
\* characters: the paths of two sub-items are the same exactly when their
\* titles and the suffixes of the qualities selected for them are
C28_SamePathForSameTitle ==
    \A k, j \in DOMAIN sub :
        TwoNamedSubItems(k, j) =>
            (sub[k].outputPath = sub[j].outputPath
                <=> /\ items[k].info.Title = items[j].info.Title
                    /\ qualitySuffix(sub[k].stream.Quality)
                         = qualitySuffix(sub[j].stream.Quality))

\* two parts of one title were both downloaded, the second into the file of
\* the first
C28_OverwrittenWitness ==
    /\ Len(sub) >= 2
    /\ TwoNamedSubItems(1, 2)
    /\ sub[1].outcome = "ok" /\ sub[2].outcome = "ok"
    /\ sub[1].outputPath = sub[2].outputPath
    /\ sub[2].outputBefore # Absent

=============================================================================
